---- MODULE Spec2Model ----
(***************************************************************************)
(* Stream normalisation and process orchestration of ai-code-search.       *)
(*                                                                         *)
(* Text is a sequence of string tokens (a token stands for one or more     *)
(* characters); NL is the newline character.  A JSON object is the record  *)
(* [type, sub, str, text]: `type` is obj.type, `sub` the second            *)
(* discriminator (subtype / role / status), `str` says that the payload    *)
(* field is a string, `text` is the payload.  Render is JSON.stringify and *)
(* ParseJSON is JSON.parse on these token sequences.                       *)
(***************************************************************************)
EXTENDS Integers, Sequences, FiniteSets, TLC

\* ------------------------------------------------------------------ bounds
\* native lines a child process (or messages an SDK call) produces in a Run
MaxLines == 3
\* native lines of a Run under the fair specification
MaxFairLines == 2
\* lines carried by one stdout chunk
MaxChunkLines == 2
\* stderr chunks of a Run
MaxStderrChunks == 1

\* ------------------------------------------------------------------- text
NL == "\n"
ENL == "\\n"
EENL == "\\\\n"
WS == {" ", NL, "\t"}

SeqMin(S) == CHOOSE x \in S : \A y \in S : x <= y
SeqMax(S) == CHOOSE x \in S : \A y \in S : y <= x

\* String.prototype.trim
Trim(s) ==
  LET idx == {i \in 1..Len(s) : s[i] \notin WS}
  IN IF idx = {} THEN <<>> ELSE SubSeq(s, SeqMin(idx), SeqMax(idx))

\* String.prototype.indexOf("\n"), 1-based, 0 when absent
IndexOfNL(s) ==
  LET idx == {i \in 1..Len(s) : s[i] = NL}
  IN IF idx = {} THEN 0 ELSE SeqMin(idx)

\* the escaping of a string value by JSON.stringify, and its inverse
EscapeTok(t) == IF t = NL THEN ENL ELSE IF t = ENL THEN EENL ELSE t
UnescapeTok(t) == IF t = ENL THEN NL ELSE IF t = EENL THEN ENL ELSE t
Escape(s) == [i \in 1..Len(s) |-> EscapeTok(s[i])]
Unescape(s) == [i \in 1..Len(s) |-> UnescapeTok(s[i])]

Obj(type, sub, str, text) == [type |-> type, sub |-> sub, str |-> str, text |-> text]

\* JSON.stringify(obj)
Render(o) ==
  <<"{", o.type, o.sub, IF o.str THEN "s" ELSE "-">> \o Escape(o.text) \o <<"}">>

\* does JSON.parse(raw) return an object
IsJSON(raw) ==
  /\ Len(raw) >= 5
  /\ raw[1] = "{"
  /\ raw[Len(raw)] = "}"
  /\ raw[4] \in {"s", "-"}

\* JSON.parse(raw), for IsJSON(raw)
ParseJSON(raw) ==
  Obj(raw[2], raw[3], raw[4] = "s", Unescape(SubSeq(raw, 5, Len(raw) - 1)))

\* `${JSON.stringify({type: "status", status})}\n` and the two terminal lines
StatusLine(text) == Render(Obj("status", "", TRUE, text)) \o <<NL>>
ResultLine(text) == Render(Obj("result", "success", TRUE, text)) \o <<NL>>
ErrorLine(text) == Render(Obj("error", "", TRUE, text)) \o <<NL>>

\* the exit code of a process: <<n>>, or <<>> for null (killed by a signal)
NoCode == <<>>
CodeText(code) ==
  IF code = <<0>> THEN "0" ELSE IF code = <<1>> THEN "1"
  ELSE IF code = <<2>> THEN "2" ELSE IF code = <<-2>> THEN "-2" ELSE "null"

\* code !== 0 && code !== null
IsFailureCode(code) == code # <<0>> /\ code # NoCode

\* a variant of ExitErrorMsg that tests and reports stderr as captured, untrimmed
ExitErrorMsg_Untrimmed(code, stderrBuffer) ==
  IF stderrBuffer # <<>>
    THEN <<"Exit code ", CodeText(code), ". stderr:", NL>> \o stderrBuffer
    ELSE <<"Process exited with code ", CodeText(code), ".">>

\* stderrTrim ? `Exit code ${code}. stderr:\n${stderrTrim}` : `Process exited with code ${code}.`
ExitErrorMsg(code, stderrBuffer) ==
  LET stderrTrim == Trim(stderrBuffer)
  IN IF stderrTrim # <<>>
       THEN <<"Exit code ", CodeText(code), ". stderr:", NL>> \o stderrTrim
       ELSE <<"Process exited with code ", CodeText(code), ".">>

\* ---------------------------------------------------------- stream-parser
\* basename: last non-empty segment, "/" and "\" both separate
IsSep(t) == t \in {"/", "\\"}
Basename(path) ==
  LET ends == {i \in 1..Len(path) : ~IsSep(path[i])}
  IN IF ends = {} THEN path
     ELSE LET e == SeqMax(ends)
              seps == {i \in 1..e : IsSep(path[i])}
              b == IF seps = {} THEN 1 ELSE SeqMax(seps) + 1
          IN SubSeq(path, b, e)

\* a ParsedEvent: at most one of status / result / error; kind "none" is null
NoEvent == [kind |-> "none", text |-> <<>>]
Ev(kind, text) == [kind |-> kind, text |-> text]

\* the characters of a tool-call key that is none of the known ones
KeyChars(key) ==
  IF key = "mcpTool" THEN <<"m", "c", "p", "T", "o", "o", "l">>
  ELSE IF key = "Shell" THEN <<"S", "h", "e", "l", "l">>
  ELSE <<key>>

IsUpperCase(c) == c \in {"M", "S", "T", "X"}
ToUpperCase(c) == IF c = "m" THEN "M" ELSE IF c = "x" THEN "X" ELSE c

\* key.replace(/([A-Z])/g, " $1")
RECURSIVE SpaceCapitals(_)
SpaceCapitals(s) ==
  IF s = <<>> THEN <<>>
  ELSE (IF IsUpperCase(Head(s)) THEN <<" ", Head(s)>> ELSE <<Head(s)>>) \o SpaceCapitals(Tail(s))

\* key.replace(/([A-Z])/g, " $1").replace(/^./, (s) => s.toUpperCase()).trim()
Humanize(key) ==
  LET spaced == SpaceCapitals(key)
  IN Trim(<<ToUpperCase(Head(spaced))>> \o Tail(spaced))

\* a variant of getToolCallInfo that labels a read with the whole path
getToolCallInfo_FullPath(tc) ==
  IF tc = <<>> \/ tc[1] # "readToolCall" THEN <<>>
  ELSE IF Len(tc) > 1 THEN <<"Reading file: ">> \o Tail(tc) ELSE <<"Reading file">>

\* getToolCallInfo: the payload's first token is the tool-call key, the rest is
\* args.path (read, list) or args.pattern and args.glob (grep); <<>> is null
getToolCallInfo(tc) ==
  IF tc = <<>> THEN <<>>
  ELSE IF tc[1] = "readToolCall"
    THEN (IF Len(tc) > 1 THEN <<"Reading file: ">> \o Basename(Tail(tc)) ELSE <<"Reading file">>)
  ELSE IF tc[1] = "grepToolCall"
    THEN LET pattern == IF Len(tc) > 1 THEN tc[2] ELSE "..."
             glob == IF Len(tc) > 2 THEN tc[3] ELSE ""
         IN IF glob # "" THEN <<"Searching for ", pattern, " in ", glob>>
            ELSE <<"Searching for ", pattern>>
  ELSE IF tc[1] = "listDirToolCall"
    THEN (IF Len(tc) > 1 THEN <<"Listing directory: ">> \o Basename(Tail(tc)) ELSE <<"Listing directory">>)
  ELSE IF tc[1] = "codebaseSearchToolCall" THEN <<"Searching codebase">>
  ELSE IF tc[1] = "webSearchToolCall" THEN <<"Searching the web">>
  ELSE IF tc[1] # "" THEN Humanize(KeyChars(tc[1])) \o <<"...">>
  ELSE <<>>

\* a variant of parseStreamEvent that maps result/error to an Error event
parseStreamEvent_ResultErrorIsError(line) ==
  LET trimmed == Trim(line)
  IN IF trimmed = <<>> \/ ~IsJSON(trimmed) THEN NoEvent
     ELSE LET obj == ParseJSON(trimmed)
              type == obj.type
              subtype == obj.sub
          IN IF type = "system" /\ subtype = "init" THEN Ev("status", <<"Starting...">>)
             ELSE IF type = "thinking" /\ subtype = "delta" THEN Ev("status", <<"Thinking...">>)
             ELSE IF type = "thinking" /\ subtype = "completed"
               THEN Ev("status", <<"Thinking completed.">>)
             ELSE IF type = "tool_call" /\ subtype = "started" /\ getToolCallInfo(obj.text) # <<>>
               THEN Ev("status", getToolCallInfo(obj.text))
             ELSE IF type = "tool_call" /\ subtype = "completed" /\ getToolCallInfo(obj.text) # <<>>
               THEN Ev("status", getToolCallInfo(obj.text) \o <<" - done.">>)
             ELSE IF type = "assistant" THEN Ev("status", <<"Preparing answer...">>)
             ELSE IF type = "result" /\ subtype = "success" /\ obj.str THEN Ev("result", obj.text)
             ELSE IF type = "result" /\ subtype = "error"
               THEN Ev("error", IF obj.str THEN obj.text ELSE <<"Unknown error">>)
             ELSE IF type = "status" /\ obj.str THEN Ev("status", obj.text)
             ELSE IF type = "error" /\ obj.str THEN Ev("error", obj.text)
             ELSE NoEvent

parseStreamEvent(line) ==
  LET trimmed == Trim(line)
  IN IF trimmed = <<>> \/ ~IsJSON(trimmed) THEN NoEvent
     ELSE LET obj == ParseJSON(trimmed)
              type == obj.type
              subtype == obj.sub
          IN IF type = "system" /\ subtype = "init" THEN Ev("status", <<"Starting...">>)
             ELSE IF type = "thinking" /\ subtype = "delta" THEN Ev("status", <<"Thinking...">>)
             ELSE IF type = "thinking" /\ subtype = "completed"
               THEN Ev("status", <<"Thinking completed.">>)
             ELSE IF type = "tool_call" /\ subtype = "started" /\ getToolCallInfo(obj.text) # <<>>
               THEN Ev("status", getToolCallInfo(obj.text))
             ELSE IF type = "tool_call" /\ subtype = "completed" /\ getToolCallInfo(obj.text) # <<>>
               THEN Ev("status", getToolCallInfo(obj.text) \o <<" - done.">>)
             ELSE IF type = "assistant" THEN Ev("status", <<"Preparing answer...">>)
             ELSE IF type = "result" /\ subtype = "success" /\ obj.str THEN Ev("result", obj.text)
             ELSE IF type = "result" /\ subtype = "error"
               THEN Ev("status", <<"Error: ">> \o (IF obj.str THEN obj.text ELSE <<"Unknown error">>))
             ELSE IF type = "status" /\ obj.str THEN Ev("status", obj.text)
             ELSE IF type = "error" /\ obj.str THEN Ev("error", obj.text)
             ELSE NoEvent

\* buffer.split("\n"): the pieces between newlines, the last one unterminated
RECURSIVE SplitNL(_)
SplitNL(s) ==
  LET i == IndexOfNL(s)
  IN IF i = 0 THEN <<s>>
     ELSE <<SubSeq(s, 1, i - 1)>> \o SplitNL(SubSeq(s, i + 1, Len(s)))

\* the events a line-buffering consumer decodes from a whole byte stream
RECURSIVE EventsOfLines(_)
EventsOfLines(ls) ==
  IF ls = <<>> THEN <<>>
  ELSE LET e == parseStreamEvent(Head(ls))
       IN (IF e.kind = "none" THEN <<>> ELSE <<e>>) \o EventsOfLines(Tail(ls))

EventsOf(bytes) == EventsOfLines(SplitNL(bytes))
IsTerminal(e) == e.kind \in {"result", "error"}
Terminals(bytes) == SelectSeq(EventsOf(bytes), IsTerminal)

\* ------------------------------------------------- consumer-side events
\* what an adapter (or the child process) signals to the attached listeners
EvData(chunk) == [ev |-> "data", chunk |-> chunk, code |-> NoCode]
EvEnd == [ev |-> "end", chunk |-> <<>>, code |-> NoCode]
EvStreamError == [ev |-> "streamError", chunk |-> <<>>, code |-> NoCode]
EvChildError == [ev |-> "error", chunk |-> <<>>, code |-> NoCode]
EvClose(code) == [ev |-> "close", chunk |-> <<>>, code |-> code]
DataEvents(chunks) == [i \in 1..Len(chunks) |-> EvData(chunks[i])]

\* ------------------------------------------------ lenient adapter (Gemini)
NoConv == [isNull |-> TRUE, hasLine |-> FALSE, line |-> <<>>, assistantContent |-> <<>>]
Conv(hasLine, line, ac) ==
  [isNull |-> FALSE, hasLine |-> hasLine, line |-> line, assistantContent |-> ac]

\* path.replace(/\\/g, "/")
NormalizeSeparators(path) == [i \in 1..Len(path) |-> IF path[i] = "\\" THEN "/" ELSE path[i]]

\* normalized.split("/"): the pieces between slashes
RECURSIVE SplitSlash(_)
SplitSlash(s) ==
  LET idx == {i \in 1..Len(s) : s[i] = "/"}
  IN IF idx = {} THEN <<s>>
     ELSE <<SubSeq(s, 1, SeqMin(idx) - 1)>> \o SplitSlash(SubSeq(s, SeqMin(idx) + 1, Len(s)))

\* a variant of the adapter's basename that takes only "/" for a separator
GemBasename_SlashOnly(path) ==
  LET parts == SelectSeq(SplitSlash(path), LAMBDA part : part # <<>>)
  IN IF parts # <<>> THEN parts[Len(parts)] ELSE path

\* the adapter's own basename: parts[parts.length - 1] ?? path
GemBasename(path) ==
  LET parts == SelectSeq(SplitSlash(NormalizeSeparators(path)), LAMBDA part : part # <<>>)
  IN IF parts # <<>> THEN parts[Len(parts)] ELSE path

ReplaceUnderscores(s) == [i \in 1..Len(s) |-> IF s[i] = "_" THEN " " ELSE s[i]]

\* a tool_use object: sub = "file" carries parameters.file_path, "tool" carries tool_name
ToolUseLabel(obj) ==
  IF obj.sub = "file" /\ obj.text # <<>> THEN <<"Reading file: ">> \o GemBasename(obj.text)
  ELSE IF obj.sub = "tool" /\ obj.text # <<>> THEN ReplaceUnderscores(obj.text) \o <<"...">>
  ELSE <<"Using tool...">>

geminiEventToCursorLine(obj, assistantContent) ==
  LET type == obj.type
      content == IF obj.str THEN obj.text ELSE <<>>
  IN IF type = "init" THEN Conv(TRUE, StatusLine(<<"Starting...">>), assistantContent)
     ELSE IF type = "message"
       THEN (IF obj.sub = "user"
               THEN Conv(TRUE, StatusLine(<<"Sending prompt...">>), assistantContent)
             ELSE IF obj.sub = "assistant" /\ content # <<>>
               THEN Conv(FALSE, <<>>, assistantContent \o content)
             ELSE NoConv)
     ELSE IF type = "tool_use" THEN Conv(TRUE, StatusLine(ToolUseLabel(obj)), assistantContent)
     ELSE IF type = "tool_result" THEN Conv(TRUE, StatusLine(<<"Tool completed.">>), assistantContent)
     ELSE IF type = "result"
       THEN (IF obj.sub = "success"
               THEN Conv(TRUE,
                         ResultLine(IF Trim(assistantContent) # <<>>
                                      THEN Trim(assistantContent) ELSE <<"(No response)">>),
                         assistantContent)
               ELSE Conv(TRUE,
                         ErrorLine(IF obj.str THEN obj.text ELSE <<"Unknown error">>),
                         assistantContent))
     ELSE NoConv

\* converted.line.includes('"type":"result"') || converted.line.includes('"type":"error"')
IncludesTerminalType(line) == Len(line) >= 2 /\ line[2] \in {"result", "error"}

GemInit ==
  [stdoutBuffer |-> <<>>, lineBuffer |-> <<>>, stderrBuffer |-> <<>>,
   assistantContent |-> <<>>, resultEmitted |-> FALSE, closed |-> FALSE]

\* the while loop of the stdout data handler; st = [g, pushed]
RECURSIVE GemLineLoop(_)
GemLineLoop(st) ==
  LET idx == IndexOfNL(st.g.lineBuffer)
  IN IF idx = 0 THEN st
     ELSE
       LET raw == Trim(SubSeq(st.g.lineBuffer, 1, idx - 1))
           g1 == [st.g EXCEPT !.lineBuffer = SubSeq(@, idx + 1, Len(@))]
       IN IF raw = <<>> THEN GemLineLoop([st EXCEPT !.g = g1])
          ELSE IF ~IsJSON(raw)
            THEN GemLineLoop([g |-> g1, pushed |-> Append(st.pushed, StatusLine(raw))])
          ELSE
            LET converted == geminiEventToCursorLine(ParseJSON(raw), g1.assistantContent)
            IN IF converted.isNull
                 THEN GemLineLoop([g |-> g1, pushed |-> Append(st.pushed, StatusLine(raw))])
               ELSE
                 LET g2 == [g1 EXCEPT !.assistantContent = converted.assistantContent]
                 IN IF ~converted.hasLine THEN GemLineLoop([st EXCEPT !.g = g2])
                    ELSE GemLineLoop(
                      [g |-> [g2 EXCEPT !.resultEmitted =
                                @ \/ IncludesTerminalType(converted.line)],
                       pushed |-> Append(st.pushed, converted.line)])

\* a variant of the stdout data handler for which a line that is not JSON ends the
\* conversion: it marks the terminal line as emitted
GemOnStdoutData_BadLineIsFinal(g, chunk) ==
  LET r == GemLineLoop([g |-> [g EXCEPT !.stdoutBuffer = @ \o chunk, !.lineBuffer = @ \o chunk],
                        pushed |-> <<>>])
      ls == SplitNL(chunk)
  IN IF \E i \in 1..Len(ls) : Trim(ls[i]) # <<>> /\ ~IsJSON(Trim(ls[i]))
       THEN [r EXCEPT !.g.resultEmitted = TRUE]
       ELSE r

\* child.stdout.on("data"): returns [g, pushed], pushed = the lines given to adapter.push
GemOnStdoutData(g, chunk) ==
  GemLineLoop([g |-> [g EXCEPT !.stdoutBuffer = @ \o chunk, !.lineBuffer = @ \o chunk],
               pushed |-> <<>>])

\* a variant of GemFinalLine that looks at the exit code only after the assistant
\* text and the raw stdout
GemFinalLine_ExitCodeLast(g, code) ==
  LET stderrTrim == Trim(g.stderrBuffer)
      stdoutTrim == Trim(g.stdoutBuffer)
  IN IF Trim(g.assistantContent) # <<>> THEN ResultLine(Trim(g.assistantContent))
     ELSE IF stdoutTrim # <<>> THEN ResultLine(stdoutTrim)
     ELSE IF IsFailureCode(code) THEN ErrorLine(ExitErrorMsg(code, g.stderrBuffer))
     ELSE IF stderrTrim # <<>> THEN ResultLine(<<"(No stdout)", NL, NL, "--- stderr ---", NL>> \o stderrTrim)
     ELSE ResultLine(<<"(No output)">>)

\* the line emitFinal pushes when no terminal line was pushed before
GemFinalLine(g, code) ==
  LET stderrTrim == Trim(g.stderrBuffer)
      stdoutTrim == Trim(g.stdoutBuffer)
  IN IF IsFailureCode(code) THEN ErrorLine(ExitErrorMsg(code, g.stderrBuffer))
     ELSE IF Trim(g.assistantContent) # <<>> THEN ResultLine(Trim(g.assistantContent))
     ELSE IF stdoutTrim # <<>> THEN ResultLine(stdoutTrim)
     ELSE IF stderrTrim # <<>> THEN ResultLine(<<"(No stdout)", NL, NL, "--- stderr ---", NL>> \o stderrTrim)
     ELSE ResultLine(<<"(No output)">>)

\* a variant of emitFinal without the `closed` flag
emitFinal_Unguarded(g, code) ==
  IF g.resultEmitted THEN [g |-> [g EXCEPT !.closed = TRUE], pushed |-> <<>>, end |-> TRUE]
  ELSE [g |-> [g EXCEPT !.closed = TRUE], pushed |-> <<GemFinalLine(g, code)>>, end |-> TRUE]

\* emitFinal, code = child.exitCode: returns [g, pushed, end], end = adapter.push(null) was called
emitFinal(g, code) ==
  IF g.closed THEN [g |-> g, pushed |-> <<>>, end |-> FALSE]
  ELSE IF g.resultEmitted THEN [g |-> [g EXCEPT !.closed = TRUE], pushed |-> <<>>, end |-> TRUE]
  ELSE [g |-> [g EXCEPT !.closed = TRUE], pushed |-> <<GemFinalLine(g, code)>>, end |-> TRUE]

\* ------------------------------------------------------- HTTP POST /search
\* the response and the handler's locals
ApiInit ==
  [body |-> <<>>, ended |-> FALSE, closed |-> FALSE, endCalls |-> 0, writeAfterEnd |-> FALSE,
   stderrBuffer |-> <<>>, exitCode |-> NoCode, streamEnded |-> FALSE]

\* res.write(chunk): after res.end() nothing is written and the response reports an error
ResWrite(a, chunk) ==
  IF a.ended THEN [a EXCEPT !.writeAfterEnd = TRUE] ELSE [a EXCEPT !.body = @ \o chunk]

\* res.end()
ResEnd(a) == [a EXCEPT !.ended = TRUE, !.endCalls = IF @ < 2 THEN @ + 1 ELSE @]

LaunchFailureMsg ==
  <<"Failed to start cursor-agent process. Ensure cursor-agent is installed and available in PATH.">>

\* child.on("error")
ApiOnChildError(a) == ResEnd(ResWrite(a, ErrorLine(LaunchFailureMsg)))

\* child.on("close")
ApiOnClose(a, code) ==
  LET a1 == [a EXCEPT !.exitCode = code]
  IN IF IsFailureCode(code) /\ ~a1.streamEnded /\ ~a1.closed
       THEN ResWrite(a1, ErrorLine(ExitErrorMsg(code, a1.stderrBuffer)))
       ELSE a1

\* stdout.on("data")
ApiOnData(a, chunk) == ResWrite(a, chunk)

\* a variant of ApiOnEnd that never calls res.end()
ApiOnEnd_NoResEnd(a) ==
  LET a1 == [a EXCEPT !.streamEnded = TRUE]
  IN IF IsFailureCode(a1.exitCode) /\ ~a1.closed
       THEN ResWrite(a1, ErrorLine(ExitErrorMsg(a1.exitCode, a1.stderrBuffer)))
       ELSE a1

\* stdout.on("end")
ApiOnEnd(a) ==
  LET a1 == [a EXCEPT !.streamEnded = TRUE]
  IN IF IsFailureCode(a1.exitCode) /\ ~a1.closed
       THEN ResEnd(ResWrite(a1, ErrorLine(ExitErrorMsg(a1.exitCode, a1.stderrBuffer))))
       ELSE ResEnd(a1)

\* stdout.on("error")
ApiOnStreamError(a) == ResEnd(a)

ApiHandle(a, e) ==
  IF e.ev = "data" THEN ApiOnData(a, e.chunk)
  ELSE IF e.ev = "end" THEN ApiOnEnd(a)
  ELSE IF e.ev = "close" THEN ApiOnClose(a, e.code)
  ELSE IF e.ev = "error" THEN ApiOnChildError(a)
  ELSE ApiOnStreamError(a)

\* the listeners run one after the other, in the order the events are emitted
RECURSIVE ApiRun(_, _)
ApiRun(a, evs) == IF evs = <<>> THEN a ELSE ApiRun(ApiHandle(a, Head(evs)), Tail(evs))

\* ------------------------------------------- MCP question (runWithCursorAgent)
\* the promise, the handler's locals, the progress notifications sent, the data
\* handlers suspended at `await sendProgress` (each with the lines it has left)
\* and whether the end handler is suspended at its `await sendProgress(100, ...)`
McpInit ==
  [buffer |-> <<>>, statusMessages |-> <<>>, lastProgress |-> 0, resultMarkdown |-> <<>>,
   settled |-> "pending", value |-> <<>>, progress |-> <<>>, tasks |-> <<>>,
   endWaiting |-> FALSE, endDone |-> FALSE]

\* resolve / reject: only the first call settles the promise
Settle(m, how, value) ==
  IF m.settled # "pending" THEN m ELSE [m EXCEPT !.settled = how, !.value = value]

\* Math.min(lastProgress + 5, 90)
NextProgress(p) == IF p + 5 < 90 THEN p + 5 ELSE 90

\* the for loop over the lines of a chunk, up to the first `await sendProgress`
RECURSIVE McpLineLoop(_, _)
McpLineLoop(m, lines) ==
  IF lines = <<>> THEN m
  ELSE
    LET parsed == parseStreamEvent(Head(lines))
    IN IF parsed.kind = "error" /\ parsed.text # <<>> THEN Settle(m, "rejected", parsed.text)
       ELSE IF parsed.kind = "status" /\ parsed.text # <<>>
         THEN [m EXCEPT
                 !.statusMessages = Append(@, parsed.text),
                 !.lastProgress = NextProgress(@),
                 !.progress = Append(@, NextProgress(m.lastProgress)),
                 !.tasks = IF Tail(lines) = <<>> THEN @ ELSE Append(@, Tail(lines))]
       ELSE IF parsed.kind = "result" /\ parsed.text # <<>>
         THEN McpLineLoop([m EXCEPT !.resultMarkdown = parsed.text], Tail(lines))
       ELSE McpLineLoop(m, Tail(lines))

\* stdout.on("data")
McpOnData(m, chunk) ==
  LET lines == SplitNL(m.buffer \o chunk)
      n == Len(lines)
  IN McpLineLoop([m EXCEPT !.buffer = lines[n]], SubSeq(lines, 1, n - 1))

\* a suspended data handler continues after its `await sendProgress`
McpResumeTask(m) ==
  McpLineLoop([m EXCEPT !.tasks = Tail(@)], Head(m.tasks))

\* the end handler without its `if (buffer) { ... }` block
McpOnEnd_NoFlush(m) == [m EXCEPT !.progress = Append(@, 100), !.endWaiting = TRUE]

\* stdout.on("end"), up to `await sendProgress(100, 100, "Completed")`
McpOnEnd(m) ==
  LET parsed == IF m.buffer # <<>> THEN parseStreamEvent(m.buffer) ELSE NoEvent
  IN IF parsed.kind = "error" /\ parsed.text # <<>> THEN Settle(m, "rejected", parsed.text)
     ELSE
       LET m1 == IF parsed.kind = "status" /\ parsed.text # <<>>
                   THEN [m EXCEPT !.statusMessages = Append(@, parsed.text)]
                 ELSE IF parsed.kind = "result" /\ parsed.text # <<>>
                   THEN [m EXCEPT !.resultMarkdown = parsed.text]
                 ELSE m
       IN [m1 EXCEPT !.progress = Append(@, 100), !.endWaiting = TRUE]

\* statusMessages.join(", ")
RECURSIVE JoinTexts(_, _)
JoinTexts(texts, sep) ==
  IF texts = <<>> THEN <<>>
  ELSE IF Len(texts) = 1 THEN texts[1]
  ELSE texts[1] \o <<sep>> \o JoinTexts(Tail(texts), sep)

FinalText(m) ==
  LET statusText == IF Len(m.statusMessages) > 0
                      THEN <<NL, NL, "_Status updates: ">> \o JoinTexts(m.statusMessages, ", ")
                           \o <<"_", NL, NL>>
                      ELSE <<>>
  IN IF m.resultMarkdown # <<>> THEN m.resultMarkdown \o statusText
     ELSE <<"No result returned.">> \o statusText

\* the end handler after its await: resolve({content: finalText})
McpEndContinue(m) ==
  [Settle(m, "resolved", FinalText(m)) EXCEPT !.endWaiting = FALSE, !.endDone = TRUE]

\* child.on("error"), stdout.on("error"), child.on("close") (which only logs)
McpOnChildError(m) == Settle(m, "rejected", LaunchFailureMsg)
McpOnStreamError(m) == Settle(m, "rejected", <<"Stream error: ", "read failed">>)
McpOnClose(m, code) == m

McpHandle(m, e) ==
  IF e.ev = "data" THEN McpOnData(m, e.chunk)
  ELSE IF e.ev = "end" THEN McpOnEnd(m)
  ELSE IF e.ev = "close" THEN McpOnClose(m, e.code)
  ELSE IF e.ev = "error" THEN McpOnChildError(m)
  ELSE McpOnStreamError(m)

RECURSIVE McpRun(_, _)
McpRun(m, evs) == IF evs = <<>> THEN m ELSE McpRun(McpHandle(m, Head(evs)), Tail(evs))

\* ----------------------------------------------- SDK adapter (Claude Agent)
\* an SDK message is an object too: for a result message `str` says that `result`
\* is a string (subtype success) or that `errors` is an array (subtype error_*),
\* and `text` is the result or the list of errors
SdkErrorText(errors) == IF Len(errors) > 0 THEN JoinTexts([i \in 1..Len(errors) |-> <<errors[i]>>], "; ")
                        ELSE <<"Unknown error">>

\* m.subtype?.startsWith("error_")
StartsWithError(sub) == sub \in {"error_during_execution", "error_max_turns"}

\* the body of the for-await loop: the lines it pushes for message m
SdkOnMessage(m) ==
  IF m.type = "system" /\ m.sub = "init" THEN <<StatusLine(<<"Claude agent ready.">>)>>
  ELSE IF m.type = "result" /\ m.sub = "success" /\ m.str THEN <<ResultLine(m.text)>>
  ELSE IF m.type = "result" /\ StartsWithError(m.sub) /\ m.str
    THEN <<ErrorLine(SdkErrorText(m.text))>>
  ELSE <<>>

\* the catch block: the error line, then child.emit("error"), child.emit("close", 1)
SdkCatchEvents(message) ==
  <<EvData(ErrorLine(message)), EvChildError, EvClose(<<1>>)>>

\* what the catch block signals: EventEmitter.emit("error") throws the error when
\* no 'error' listener is attached, and the rest of the block is skipped
SdkCatchEmits(listening, message) ==
  IF listening THEN SdkCatchEvents(message) ELSE <<EvData(ErrorLine(message))>>

\* ------------------------------------------------------------ the inputs
\* native stdout lines of cursor-agent (reference format) and of the Gemini CLI
CursorLines ==
  { Render(Obj("system", "init", FALSE, <<>>)),
    Render(Obj("assistant", "", FALSE, <<>>)),
    Render(Obj("result", "success", TRUE, <<"done">>)),
    Render(Obj("error", "", TRUE, <<"bad">>)),
    <<"plain text">> }

GeminiLines ==
  { Render(Obj("init", "", FALSE, <<>>)),
    Render(Obj("message", "assistant", TRUE, <<"A">>)),
    Render(Obj("message", "assistant", TRUE, <<"B">>)),
    Render(Obj("message", "assistant", TRUE, <<>>)),
    Render(Obj("result", "success", FALSE, <<>>)),
    Render(Obj("result", "error", TRUE, <<"quota">>)),
    <<"plain text">> }

NativeLines(agent) == IF agent = "gemini" THEN GeminiLines ELSE CursorLines

SdkMessages ==
  { Obj("system", "init", FALSE, <<>>),
    Obj("stream_event", "", FALSE, <<>>),
    Obj("result", "success", TRUE, <<"answer">>),
    Obj("result", "success", FALSE, <<>>),
    Obj("result", "error_during_execution", TRUE, <<"e1", "e2">>),
    Obj("result", "error_max_turns", FALSE, <<>>) }

StderrChunks == { <<" ">>, <<" ", "boom", NL>> }
ExitCodes == { <<0>>, <<1>>, NoCode }
\* the code a failed spawn closes with (the negated errno)
SpawnFailCode == <<-2>>

RECURSIVE JoinLines(_)
JoinLines(ls) == IF ls = <<>> THEN <<>> ELSE Head(ls) \o <<NL>> \o JoinLines(Tail(ls))

\* the bytes of one stdout chunk: whole lines, the last one unterminated when ~term
ChunkBytes(ls, term) ==
  IF term THEN JoinLines(ls) ELSE SubSeq(JoinLines(ls), 1, Len(JoinLines(ls)) - 1)

LineSeqs(agent, n) == UNION { [1..k -> NativeLines(agent)] : k \in 1..n }

\* ---------------------------------------------------------------- the state
VARIABLES
  agentType,  \* the configured agent kind
  consumer,   \* "http" (POST /search) or "mcp" (question)
  child,      \* the child process as the listeners see it
  gem,        \* the locals of runGeminiStream
  sdk,        \* the position of the async body of runClaudeAgentStream
  out,        \* the Readable handed to the consumer
  api,        \* the response and locals of POST /search
  mcp,        \* the promise and locals of runWithCursorAgent
  srv         \* the server: its configuration, the library on disk, the requests being prepared

vars == <<agentType, consumer, child, gem, sdk, out, api, mcp, srv>>

\* budget: the native lines the child will still write; partial: its last chunk
\* stopped without a newline (nothing but the exit follows); exitCode: child.exitCode
ChildInit(agent, lines) ==
  [phase |-> "spawned", budget |-> lines, partial |-> FALSE,
   stderrLeft |-> MaxStderrChunks, stdoutOpen |-> agent # "claude",
   closed |-> FALSE, failed |-> FALSE, exitCode |-> NoCode]

\* runGeminiStream pushes its first status before any listener is attached
OutInit(agent) ==
  [pushed |-> IF agent = "gemini" THEN StatusLine(<<"Running Gemini...">>) ELSE <<>>,
   flowing |-> agent # "gemini", ended |-> FALSE, endDelivered |-> FALSE,
   destroyed |-> FALSE]

\* failed: the dynamic import of the SDK threw
\* listening: an 'error' listener is attached to the fake child; escaped: an
\* exception left the async body of the adapter (its promise rejected, unhandled);
\* returned: the for-await loop ended without an exception
SdkInit(lines) ==
  [phase |-> "import", left |-> lines, failed |-> FALSE, listening |-> TRUE, escaped |-> FALSE,
   returned |-> FALSE]

\* the server with no request being prepared
SrvNone ==
  [env |-> "", cloned |-> TRUE, listed |-> TRUE, folderIsProject |-> TRUE,
   lastPull |-> 0, today |-> 1, pullDays |-> <<>>, reqs |-> <<>>]

\* the state when the listeners of a Run of `agent` for `cons` have been attached
InitRun(agent, cons, lines) ==
  /\ agentType = agent
  /\ consumer = cons
  /\ child = ChildInit(agent, lines)
  /\ gem = GemInit
  /\ sdk = SdkInit(lines)
  /\ out = OutInit(agent)
  /\ api = ApiInit
  /\ mcp = McpInit
  /\ srv = SrvNone

\* the attached listeners handle the events evs, in order
Deliver(evs) ==
  /\ api' = IF consumer = "http" THEN ApiRun(api, evs) ELSE api
  /\ mcp' = IF consumer = "mcp" THEN McpRun(mcp, evs) ELSE mcp

RECURSIVE Concat(_)
Concat(chunks) == IF chunks = <<>> THEN <<>> ELSE Head(chunks) \o Concat(Tail(chunks))

\* --------------------------------------------------------------- the steps
\* the adapter's Readable starts flowing: the buffered first status is delivered
AdapterResume ==
  /\ agentType = "gemini" /\ ~out.flowing
  /\ out' = [out EXCEPT !.flowing = TRUE]
  /\ Deliver(<<EvData(out.pushed)>>)
  /\ UNCHANGED <<srv, agentType, consumer, child, gem, sdk>>

\* spawn fails: the child emits 'error' before anything else
SpawnFail ==
  /\ agentType \in {"cursor", "gemini"}
  /\ child.phase = "spawned" /\ ~child.failed /\ ~child.closed /\ child.stdoutOpen
  /\ agentType = "gemini" => ~out.flowing
  /\ child' = [child EXCEPT !.failed = TRUE]
  /\ Deliver(<<EvChildError>>)
  /\ UNCHANGED <<srv, agentType, consumer, gem, sdk, out>>

\* a chunk of the child's stdout
StdoutData(ls, term) ==
  /\ agentType \in {"cursor", "gemini"}
  /\ child.stdoutOpen /\ ~child.closed /\ ~child.failed /\ out.flowing
  /\ ~child.partial
  /\ Len(ls) <= child.budget
  /\ child' = [child EXCEPT !.phase = "running", !.budget = @ - Len(ls), !.partial = ~term]
  /\ LET chunk == ChunkBytes(ls, term)
     IN IF agentType = "cursor"
          THEN /\ out' = [out EXCEPT !.pushed = @ \o chunk]
               /\ gem' = gem
               /\ Deliver(<<EvData(chunk)>>)
          ELSE LET r == GemOnStdoutData(gem, chunk)
               IN /\ gem' = r.g
                  /\ out' = [out EXCEPT !.pushed = @ \o Concat(r.pushed)]
                  /\ Deliver(DataEvents(r.pushed))
  /\ UNCHANGED <<srv, agentType, consumer, sdk>>

\* a chunk of the child's stderr: every listener appends it to its own buffer
StderrData(chunk) ==
  /\ agentType \in {"cursor", "gemini"}
  /\ ~child.closed /\ ~child.failed /\ out.flowing
  /\ child.stderrLeft > 0
  /\ child' = [child EXCEPT !.phase = "running", !.stderrLeft = @ - 1]
  /\ gem' = IF agentType = "gemini" THEN [gem EXCEPT !.stderrBuffer = @ \o chunk] ELSE gem
  /\ api' = IF consumer = "http" THEN [api EXCEPT !.stderrBuffer = @ \o chunk] ELSE api
  /\ UNCHANGED <<srv, agentType, consumer, sdk, out, mcp>>

\* the child's stdout ends (the strict path hands this stream to the consumer)
StdoutEnd ==
  /\ agentType = "cursor"
  /\ child.stdoutOpen
  /\ child' = [child EXCEPT !.stdoutOpen = FALSE]
  /\ out' = [out EXCEPT !.ended = TRUE, !.endDelivered = TRUE]
  /\ Deliver(<<EvEnd>>)
  /\ UNCHANGED <<srv, agentType, consumer, gem, sdk>>

\* reading the child's stdout fails: no 'end' follows; the lenient adapter destroys
\* its Readable with the error, which then ignores every push
StdoutError ==
  /\ agentType \in {"cursor", "gemini"}
  /\ child.stdoutOpen /\ ~child.closed /\ ~child.failed /\ out.flowing
  /\ child' = [child EXCEPT !.stdoutOpen = FALSE]
  /\ out' = IF agentType = "gemini" THEN [out EXCEPT !.destroyed = TRUE] ELSE out
  /\ Deliver(<<EvStreamError>>)
  /\ UNCHANGED <<srv, agentType, consumer, gem, sdk>>

\* the child emits 'close': the adapter's listener (emitFinal) runs first, then the
\* consumer's; a failed spawn closes with the negated errno
ChildClose(code) ==
  /\ agentType \in {"cursor", "gemini"}
  /\ ~child.closed /\ out.flowing
  /\ child.failed <=> code = SpawnFailCode
  /\ child' = [child EXCEPT !.closed = TRUE, !.exitCode = code]
  /\ IF agentType = "cursor"
       THEN /\ gem' = gem /\ out' = out
            /\ Deliver(<<EvClose(code)>>)
       ELSE LET r == emitFinal(gem, code)
            IN /\ gem' = r.g
               /\ IF out.destroyed
                    THEN /\ out' = out
                         /\ Deliver(<<EvClose(code)>>)
                    ELSE /\ out' = [out EXCEPT !.pushed = @ \o Concat(r.pushed), !.ended = r.end]
                         /\ Deliver(DataEvents(r.pushed) \o <<EvClose(code)>>)
  /\ UNCHANGED <<srv, agentType, consumer, sdk>>

\* the adapter's Readable emits 'end' after push(null)
AdapterEnd ==
  /\ agentType \in {"gemini", "claude"}
  /\ out.ended /\ ~out.endDelivered
  /\ out' = [out EXCEPT !.endDelivered = TRUE]
  /\ Deliver(<<EvEnd>>)
  /\ UNCHANGED <<srv, agentType, consumer, child, gem, sdk>>

\* await import(...) and the first push; a failed import is caught like any throw
SdkStart(ok) ==
  /\ agentType = "claude" /\ sdk.phase = "import"
  /\ IF ok
       THEN /\ sdk' = [sdk EXCEPT !.phase = "loop"]
            /\ out' = [out EXCEPT !.pushed = @ \o StatusLine(<<"Starting...">>)]
            /\ Deliver(<<EvData(StatusLine(<<"Starting...">>))>>)
       ELSE /\ sdk' = [sdk EXCEPT !.phase = "done", !.failed = TRUE, !.escaped = ~sdk.listening]
            /\ out' = [out EXCEPT !.pushed = @ \o ErrorLine(<<"import failed">>), !.ended = TRUE]
            /\ Deliver(SdkCatchEmits(sdk.listening, <<"import failed">>))
  /\ UNCHANGED <<srv, agentType, consumer, child, gem>>

\* one iteration of the for-await loop
SdkMessage(m) ==
  /\ agentType = "claude" /\ sdk.phase = "loop" /\ sdk.left > 0
  /\ sdk' = [sdk EXCEPT !.left = @ - 1]
  /\ out' = [out EXCEPT !.pushed = @ \o Concat(SdkOnMessage(m))]
  /\ Deliver(DataEvents(SdkOnMessage(m)))
  /\ UNCHANGED <<srv, agentType, consumer, child, gem>>

\* the iterator throws: catch, then finally
SdkThrow ==
  /\ agentType = "claude" /\ sdk.phase = "loop"
  /\ sdk' = [sdk EXCEPT !.phase = "done", !.escaped = ~sdk.listening]
  /\ out' = [out EXCEPT !.pushed = @ \o ErrorLine(<<"sdk failure">>), !.ended = TRUE]
  /\ Deliver(SdkCatchEmits(sdk.listening, <<"sdk failure">>))
  /\ UNCHANGED <<srv, agentType, consumer, child, gem>>

\* the iterator is exhausted: child.emit("close", 0), then finally
SdkReturn ==
  /\ agentType = "claude" /\ sdk.phase = "loop"
  /\ sdk' = [sdk EXCEPT !.phase = "done", !.returned = TRUE]
  /\ out' = [out EXCEPT !.ended = TRUE]
  /\ Deliver(<<EvClose(<<0>>)>>)
  /\ UNCHANGED <<srv, agentType, consumer, child, gem>>

\* some listener of the Run can still be called
EventsPending ==
  \/ agentType # "claude" /\ ~child.closed
  \/ agentType = "cursor" /\ child.stdoutOpen
  \/ agentType = "claude" /\ sdk.phase # "done"
  \/ out.ended /\ ~out.endDelivered

\* the response's 'close' after it was ended, while the Run still goes on
ResClose ==
  /\ consumer = "http" /\ api.ended /\ ~api.closed
  /\ EventsPending
  /\ api' = [api EXCEPT !.closed = TRUE]
  /\ UNCHANGED <<srv, agentType, consumer, child, gem, sdk, out, mcp>>

\* a sendProgress promise settles: the oldest suspended data handler continues
McpResume ==
  /\ consumer = "mcp" /\ mcp.tasks # <<>>
  /\ mcp' = McpResumeTask(mcp)
  /\ UNCHANGED <<srv, agentType, consumer, child, gem, sdk, out, api>>

\* sendProgress(100, ...) settles: the end handler resolves the promise
McpEndResume ==
  /\ consumer = "mcp" /\ mcp.endWaiting
  /\ mcp' = McpEndContinue(mcp)
  /\ UNCHANGED <<srv, agentType, consumer, child, gem, sdk, out, api>>

\* ------------------------------------------------------ the specifications
\* the events of a spawned child process
ProcessStep ==
  \/ SpawnFail
  \/ \E ls \in LineSeqs(agentType, MaxChunkLines), term \in BOOLEAN : StdoutData(ls, term)
  \/ \E chunk \in StderrChunks : StderrData(chunk)
  \/ \E code \in ExitCodes \cup {SpawnFailCode} : ChildClose(code)

\* a Run of the lenient adapter behind POST /search, its stdout pipe read without error
InitLenient == InitRun("gemini", "http", MaxLines)
NextLenient == AdapterResume \/ ProcessStep \/ AdapterEnd \/ ResClose
SpecLenient == InitLenient /\ [][NextLenient]_vars

\* a Run of the strict adapter behind POST /search
InitStrict == InitRun("cursor", "http", MaxLines)
NextStrict == ProcessStep \/ StdoutEnd \/ StdoutError \/ ResClose
SpecStrict == InitStrict /\ [][NextStrict]_vars

\* a Run of the SDK adapter behind POST /search
InitSdk == InitRun("claude", "http", MaxLines)
NextSdk ==
  \/ \E ok \in BOOLEAN : SdkStart(ok)
  \/ \E m \in SdkMessages : SdkMessage(m)
  \/ SdkThrow
  \/ SdkReturn
  \/ AdapterEnd
  \/ ResClose
SpecSdk == InitSdk /\ [][NextSdk]_vars

\* a Run of the strict adapter behind the MCP question tool
InitMcp == InitRun("cursor", "mcp", MaxLines)
NextMcp == ProcessStep \/ StdoutEnd \/ StdoutError \/ McpResume \/ McpEndResume
SpecMcp == InitMcp /\ [][NextMcp]_vars

\* every Run
Init == InitLenient \/ InitStrict \/ InitSdk \/ InitMcp
Next ==
  \/ AdapterResume
  \/ ProcessStep
  \/ StdoutEnd
  \/ StdoutError
  \/ AdapterEnd
  \/ \E ok \in BOOLEAN : SdkStart(ok)
  \/ \E m \in SdkMessages : SdkMessage(m)
  \/ SdkThrow
  \/ SdkReturn
  \/ ResClose
  \/ McpResume
  \/ McpEndResume
Spec == Init /\ [][Next]_vars

\* every Run, with the callbacks the event loop has queued eventually called: the
\* 'end' of a stream that was closed, the continuation of the end handler's await
InitFair ==
  \/ InitRun("gemini", "http", MaxFairLines)
  \/ InitRun("cursor", "http", MaxFairLines)
  \/ InitRun("claude", "http", MaxFairLines)
  \/ InitRun("cursor", "mcp", MaxFairLines)
Fairness ==
  /\ WF_vars(StdoutEnd)
  /\ WF_vars(AdapterEnd)
  /\ WF_vars(McpEndResume)
FairSpec == InitFair /\ [][Next]_vars /\ Fairness

\* ------------------------------------------------------------ observations
\* the Events a consumer decodes from the adapter's output and from the response
OutEvents == EventsOf(out.pushed)
BodyEvents == EventsOf(api.body)

\* the last line of a byte stream (the unterminated rest when there is one)
LastLine(bytes) ==
  LET ls == SplitNL(bytes)
      idx == {i \in 1..Len(ls) : ls[i] # <<>>}
  IN IF idx = {} THEN <<>> ELSE ls[SeqMax(idx)]

\* the bytes the child wrote to its stdout in this step, as the lenient adapter saw them
NewStdout == SubSeq(gem'.stdoutBuffer, Len(gem.stdoutBuffer) + 1, Len(gem'.stdoutBuffer))

\* emitFinal has run and no terminal native line had been observed before it
GemClosedWithoutTerminal == agentType = "gemini" /\ gem.closed /\ ~gem.resultEmitted

\* the exit-code Error text as the specification words it
ExitErrorText(code, stderrTrim) ==
  IF stderrTrim # <<>>
    THEN <<"Exit code ", CodeText(code), ". stderr:", NL>> \o stderrTrim
    ELSE <<"Process exited with code ", CodeText(code), ".">>

\* a launched process has exited with a failure code
ExitedNonZero == child.closed /\ ~child.failed /\ IsFailureCode(child.exitCode)

\* the Run has finished on the producing side; the consumer has let go of it
RunFinished ==
  \/ agentType # "claude" /\ (child.closed \/ child.failed)
  \/ agentType = "claude" /\ sdk.phase = "done"
ConsumerDone == IF consumer = "http" THEN api.ended ELSE mcp.settled # "pending"

\* ------------------------------------------------------------------ claims
\* C1: the output stream of the lenient adapter never holds more than one terminal
\* Event line (result or error), however many native result lines arrive.
C1_AtMostOneTerminal ==
  agentType = "gemini" => Len(Terminals(out.pushed)) <= 1

\* C2: the output stream of the SDK adapter never holds both a Result line and an
\* Error line, and never more than one terminal line, also when the SDK iterator
\* throws after a successful result message was mapped.
C2_SdkAtMostOneTerminal ==
  agentType = "claude" =>
    LET T == Terminals(out.pushed)
    IN /\ Len(T) <= 1
       /\ ~(\E i, j \in 1..Len(T) : T[i].kind = "result" /\ T[j].kind = "error")

\* C3: once the lenient adapter has pushed a terminal Event, it pushes no further
\* Event of any kind: a terminal Event is always the last Event of its output.
C3_NothingAfterTerminal ==
  agentType = "gemini" =>
    \A i \in 1..Len(OutEvents) : IsTerminal(OutEvents[i]) => i = Len(OutEvents)

\* C4: in the lenient adapter a native message{role=assistant} line pushes no Event
\* and appends its content to the running buffer, and a native result{status=success}
\* line pushes the Result whose text is the trimmed buffer ("(No response)" when that
\* is empty).
C4_AssistantAccumulates ==
  [][agentType = "gemini" =>
       /\ \A content \in {<<"A">>, <<"B">>, <<>>} :
            NewStdout = Render(Obj("message", "assistant", TRUE, content)) \o <<NL>> =>
              /\ out'.pushed = out.pushed
              /\ gem'.assistantContent = gem.assistantContent \o content
       /\ NewStdout = Render(Obj("result", "success", FALSE, <<>>)) \o <<NL>> =>
            out'.pushed = out.pushed \o
              ResultLine(IF Trim(gem.assistantContent) # <<>>
                           THEN Trim(gem.assistantContent) ELSE <<"(No response)">>)]_vars

C7_NothingAfterNonZeroExit ==
  (/\ consumer = "http"
   /\ ExitedNonZero
   /\ agentType = "gemini" => gem.resultEmitted
   /\ agentType = "cursor" => Terminals(out.pushed) # <<>>) =>
    /\ agentType = "gemini" => out.ended /\ Len(Terminals(out.pushed)) = 1
    /\ api.body = out.pushed

\* C8: on the strict path over HTTP, when the child has exited with a non-zero code N,
\* its stdout has ended and held no terminal Event line, the response holds exactly
\* one terminal Event, the Error made of the trimmed stderr or of "Process exited with
\* code N."; the two callbacks may have run in either order.
C8_ExactlyOneError ==
  (/\ agentType = "cursor" /\ consumer = "http"
   /\ ExitedNonZero
   /\ out.endDelivered
   /\ Terminals(out.pushed) = <<>>) =>
    LET T == Terminals(api.body)
        stderrTrim == Trim(api.stderrBuffer)
    IN /\ Len(T) = 1
       /\ T[1].kind = "error"
       /\ T[1].text \in {stderrTrim, ExitErrorText(child.exitCode, stderrTrim)}

\* C9: when a streaming /search request is over, the response holds exactly one
\* terminal Event line, that line is the last line written, and the response is ended.
C9_ExactlyOneTerminalLast ==
  (consumer = "http" /\ ~EventsPending) =>
    /\ Len(Terminals(api.body)) = 1
    /\ IsTerminal(parseStreamEvent(LastLine(api.body)))
    /\ api.ended

\* C10: once the child process has closed or failed to launch (or the SDK call has
\* completed or thrown), the HTTP response is eventually ended and the MCP promise is
\* eventually resolved or rejected.
C10_EventuallyTerminates == RunFinished ~> ConsumerDone

\* C10, its case: the process has closed and the MCP promise was resolved by the end
\* handler after its await
C10_Witness ==
  /\ consumer = "mcp"
  /\ child.closed
  /\ mcp.endDone
  /\ mcp.settled = "resolved"

\* the process could not be spawned, or the SDK could not be loaded
LaunchFailed == child.failed \/ sdk.failed

\* C11: after a launch failure the consumer holds the launch-failure message as its
\* terminal outcome and nothing else of the Run: the response is that one Error line,
\* the MCP promise is rejected with the message and no progress notification was sent.
C11_LaunchFailureOnly ==
  LaunchFailed =>
    /\ consumer = "http" => BodyEvents = <<Ev("error", LaunchFailureMsg)>>
    /\ consumer = "mcp" =>
         /\ mcp.settled = "rejected" /\ mcp.value = LaunchFailureMsg
         /\ mcp.progress = <<>>

\* is s a subsequence of t (the elements of s appear in t, in this order)
RECURSIVE IsSubseq(_, _)
IsSubseq(s, t) ==
  IF s = <<>> THEN TRUE
  ELSE IF t = <<>> THEN FALSE
  ELSE IF Head(s) = Head(t) THEN IsSubseq(Tail(s), Tail(t))
  ELSE IsSubseq(s, Tail(t))

IsPrefix(p, s) == Len(p) <= Len(s) /\ SubSeq(s, 1, Len(p)) = p

\* the texts of the Events of one kind, in stream order
RECURSIVE TextsOf(_, _)
TextsOf(evs, kind) ==
  IF evs = <<>> THEN <<>>
  ELSE (IF Head(evs).kind = kind THEN <<Head(evs).text>> ELSE <<>>) \o TextsOf(Tail(evs), kind)

\* every callback of the MCP handler has run to its end
McpQuiet == mcp.tasks = <<>> /\ ~mcp.endWaiting

\* C12: the MCP consumer appends to statusMessages in the order the Status lines
\* appeared on the stream, also while several data callbacks are suspended at their
\* await: statusMessages is always a subsequence of the stream's Status texts, and
\* it is all of them once the stream has ended without an Error and every callback
\* has finished.
C12_StatusInStreamOrder ==
  consumer = "mcp" =>
    /\ IsSubseq(mcp.statusMessages, TextsOf(OutEvents, "status"))
    /\ (out.endDelivered /\ McpQuiet /\ mcp.settled = "resolved") =>
         mcp.statusMessages = TextsOf(OutEvents, "status")

\* C13: when the stream has ended, the promise is settled and the process had been
\* launched: a stream with an Error line has the promise rejected with the text of
\* its first Error; a stream with a Result line and no Error line has it resolved
\* with a text that starts with a Result text of the stream.
C13_OutcomeFollowsStream ==
  (consumer = "mcp" /\ out.endDelivered /\ ~child.failed /\ mcp.settled # "pending") =>
    LET errors == TextsOf(OutEvents, "error")
        results == TextsOf(OutEvents, "result")
    IN /\ errors # <<>> => mcp.settled = "rejected" /\ mcp.value = errors[1]
       /\ (errors = <<>> /\ results # <<>>) =>
            /\ mcp.settled = "resolved"
            /\ \E i \in 1..Len(results) : IsPrefix(results[i], mcp.value)

\* the question handler before runWithCursorAgent: the notifications of the clone and
\* pull steps, and the progress value the status-driven notifications start from
McpStart(needClone, shouldPull) ==
  [McpInit EXCEPT
     !.progress = (IF needClone THEN <<10, 30>> ELSE <<>>)
                  \o (IF shouldPull THEN (IF needClone THEN <<35, 40>> ELSE <<10, 15>>) ELSE <<>>),
     !.lastProgress = IF needClone THEN (IF shouldPull THEN 40 ELSE 30)
                      ELSE IF shouldPull THEN 15 ELSE 0]

\* a call of the MCP question tool with the cursor agent, after its clone and pull steps
InitQuestion ==
  \E needClone, shouldPull \in BOOLEAN :
    /\ agentType = "cursor"
    /\ consumer = "mcp"
    /\ child = ChildInit("cursor", MaxLines)
    /\ gem = GemInit
    /\ sdk = SdkInit(MaxLines)
    /\ out = OutInit("cursor")
    /\ api = ApiInit
    /\ mcp = McpStart(needClone, shouldPull)
    /\ srv = SrvNone
SpecQuestion == InitQuestion /\ [][NextMcp]_vars

\* C14: the progress values sent during one call never decrease, only the last one
\* sent can be 100 (nothing is sent after it, every earlier value is below 100), and
\* a call that has resolved has sent 100 last.
C14_ProgressMonotone ==
  consumer = "mcp" =>
    LET p == mcp.progress
    IN /\ \A i, j \in 1..Len(p) : i < j => p[i] <= p[j]
       /\ \A i \in 1..Len(p) : p[i] = 100 => i = Len(p)
       /\ mcp.settled = "resolved" => (p # <<>> /\ p[Len(p)] = 100)

\* the suspended data handlers of the MCP consumer all run to their end, oldest first
RECURSIVE McpDrain(_)
McpDrain(m) == IF m.tasks = <<>> THEN m ELSE McpDrain(McpResumeTask(m))

\* the MCP consumer fed the whole stream as one chunk, then the end of the stream
McpUnsplit(start, bytes) == McpOnEnd(McpDrain(McpOnData(start, bytes)))

\* the lenient adapter fed the whole stdout as one chunk
GemUnsplit(bytes) == GemOnStdoutData(GemInit, bytes)

\* C15: a line-buffering decoder fed the stream in chunks decodes what it decodes
\* from the same bytes fed as one chunk: the lenient adapter has pushed the same
\* lines, and the MCP consumer, once the stream has ended without a launch or read
\* failure and every callback has finished, holds the same status messages and the
\* same result.
C15_ChunkInvariance ==
  /\ (agentType = "gemini" /\ ~gem.closed) =>
       out.pushed = StatusLine(<<"Running Gemini...">>) \o Concat(GemUnsplit(gem.stdoutBuffer).pushed)
  /\ (consumer = "mcp" /\ out.endDelivered /\ ~child.failed /\ McpQuiet) =>
       LET whole == McpUnsplit(McpInit, out.pushed)
       IN /\ mcp.statusMessages = whole.statusMessages
          /\ mcp.resultMarkdown = whole.resultMarkdown

\* ------------------------------------------------ browser client (runSearch)
\* `thrown` is <<>> or <<the message of the Error thrown>>
RunSearchInit == [buffer |-> <<>>, statuses |-> <<>>, results |-> <<>>,
                  resultMarkdown |-> <<>>, thrown |-> <<>>]

\* the handling of one parsed line, in the read loop and in the flush after it
RunSearchLine(rs, line) ==
  LET parsed == parseStreamEvent(line)
  IN IF parsed.kind = "error" /\ parsed.text # <<>> THEN [rs EXCEPT !.thrown = <<parsed.text>>]
     ELSE IF parsed.kind = "status" /\ parsed.text # <<>>
       THEN [rs EXCEPT !.statuses = Append(@, parsed.text)]
     ELSE IF parsed.kind = "result" /\ parsed.text # <<>>
       THEN [rs EXCEPT !.resultMarkdown = parsed.text, !.results = Append(@, parsed.text)]
     ELSE rs

RECURSIVE RunSearchLines(_, _)
RunSearchLines(rs, lines) ==
  IF lines = <<>> \/ rs.thrown # <<>> THEN rs
  ELSE RunSearchLines(RunSearchLine(rs, Head(lines)), Tail(lines))

\* one turn of the read loop: a chunk of the response body
RunSearchChunk(rs, chunk) ==
  LET lines == SplitNL(rs.buffer \o chunk)
      n == Len(lines)
  IN RunSearchLines([rs EXCEPT !.buffer = lines[n]], SubSeq(lines, 1, n - 1))

\* `if (buffer) { ... }` after the read loop
RunSearchFlush(rs) ==
  IF rs.thrown = <<>> /\ rs.buffer # <<>> THEN RunSearchLine(rs, rs.buffer) ELSE rs

RECURSIVE RunSearchRead(_, _)
RunSearchRead(rs, chunks) ==
  IF chunks = <<>> \/ rs.thrown # <<>> THEN rs
  ELSE RunSearchRead(RunSearchChunk(rs, Head(chunks)), Tail(chunks))

runSearch(chunks) == RunSearchFlush(RunSearchRead(RunSearchInit, chunks))

\* the unterminated rest of a byte stream
Rest(bytes) == LET ls == SplitNL(bytes) IN ls[Len(ls)]

\* the byte stream without its unterminated rest
Terminated(bytes) == SubSeq(bytes, 1, Len(bytes) - Len(Rest(bytes)))

\* a Run of the strict adapter behind either consumer
InitCursor == InitStrict \/ InitMcp
NextCursor == ProcessStep \/ StdoutEnd \/ StdoutError \/ ResClose \/ McpResume \/ McpEndResume
SpecCursor == InitCursor /\ [][NextCursor]_vars

MaxRuns == 2
MaxDay == 2

\* the values of the AGENT_TYPE environment variable ("" when it is not set)
EnvValues == {"", "cursor", "gemini", "Gemini", "claude"}

\* raw.toLowerCase()
ToLowerCase(raw) == IF raw = "Gemini" THEN "gemini" ELSE raw

ALLOWED_AGENT_TYPES == {"cursor", "gemini"}

\* ok = FALSE: getAgentType throws `Invalid AGENT_TYPE: ...`
getAgentType(raw) ==
  IF raw = "" THEN [ok |-> TRUE, type |-> "cursor"]
  ELSE IF ToLowerCase(raw) \in ALLOWED_AGENT_TYPES THEN [ok |-> TRUE, type |-> ToLowerCase(raw)]
  ELSE [ok |-> FALSE, type |-> raw]

\* days are counted from 1 and 0 stands for "no record": the last pull was before today
\* ---- metadata.json: time is counted in ticks since the epoch (UTC), TicksPerDay
\* ticks a day; the local clock is tz ticks ahead of UTC
TicksPerDay == 2
MaxInstant == 5
MaxOffset == 1

\* a Date: <<t>>, or <<>> for an Invalid Date
DateOf(t) == <<t>>
InvalidDate == <<>>

\* Date.prototype.toISOString: the UTC calendar day and the time of that day
toISOString(t) == [kind |-> "iso", day |-> t \div TicksPerDay, tick |-> t % TicksPerDay]
\* new Date(string): an ISO string gives its instant, any other string an Invalid Date
NewDate(str) ==
  IF str.kind = "iso" THEN DateOf(str.day * TicksPerDay + str.tick) ELSE InvalidDate

\* metadata.libraries[libraryName]: no entry, or an entry with its lastPull string
NoLibraryMeta == [kind |-> "none", day |-> 0, tick |-> 0]
EmptyLastPull == [kind |-> "empty", day |-> 0, tick |-> 0]
GarbageLastPull == [kind |-> "garbage", day |-> 0, tick |-> 0]

\* getLastPullDate: null (here "null") when there is no entry or lastPull is falsy
getLastPullDate(libraryMeta) ==
  IF libraryMeta.kind \in {"none", "empty"} THEN "null" ELSE NewDate(libraryMeta)

\* date.setHours(0, 0, 0, 0): the start of the date's local calendar day
SetHoursZero(date, tz) ==
  IF date = InvalidDate THEN InvalidDate
  ELSE DateOf(((date[1] + tz) \div TicksPerDay) * TicksPerDay - tz)

\* a variant of needsPull that cuts both dates at the start of their UTC day
needsPull_UtcDay(libraryMeta, now, tz) ==
  LET lastPullDate == getLastPullDate(libraryMeta)
  IN IF lastPullDate = "null" THEN TRUE
     ELSE LET today == SetHoursZero(DateOf(now), 0)
              lastPullDateOnly == SetHoursZero(lastPullDate, 0)
          IN lastPullDateOnly # InvalidDate /\ lastPullDateOnly[1] < today[1]

\* needsPull at the instant now, the local clock tz ticks ahead of UTC; a comparison
\* with an Invalid Date (NaN) is false
needsPull(libraryMeta, now, tz) ==
  LET lastPullDate == getLastPullDate(libraryMeta)
  IN IF lastPullDate = "null" THEN TRUE
     ELSE LET today == SetHoursZero(DateOf(now), tz)
              lastPullDateOnly == SetHoursZero(lastPullDate, tz)
          IN lastPullDateOnly # InvalidDate /\ lastPullDateOnly[1] < today[1]

\* the prelude counts whole days: day 0 is "never pulled", a pull is recorded at the
\* start of its day
MetaOfDay(day) == IF day = 0 THEN NoLibraryMeta ELSE toISOString(day * TicksPerDay)

\* events: the lines written to the response; children: the processes started for
\* the request (git clone, git pull, the agent); outcome: how the handler left it
\* agent: the adapter runAgentStream dispatched to ("" before); needClone: the handler's
\* variable; steps: the calls the handler has made, in order
ReqInit ==
  [pc |-> "start", events |-> <<>>, ended |-> FALSE, children |-> 0, outcome |-> "none",
   agent |-> "", needClone |-> FALSE, steps |-> <<>>]

ReqStep(q, step) == [q EXCEPT !.steps = Append(@, step)]

ReqWrite(q, e) == [q EXCEPT !.events = Append(@, e)]
ReqFail(q, msg) == [ReqWrite(q, Ev("error", msg)) EXCEPT !.ended = TRUE, !.pc = "done", !.outcome = "error"]

\* a variant of SearchCloned that does not look for the folder after the clone
SearchCloned_NoRecheck(r, ok) ==
  /\ r \in DOMAIN srv.reqs
  /\ srv.reqs[r].pc = "clone"
  /\ srv' = IF ok
              THEN [srv EXCEPT !.cloned = @ \/ srv.folderIsProject,
                               !.reqs[r] = [ReqStep(@, "afterClone") EXCEPT !.pc = "needsPull"]]
            ELSE [srv EXCEPT !.reqs[r] = ReqFail(@, <<"git clone failed">>)]
  /\ UNCHANGED <<agentType, consumer, child, gem, sdk, out, api, mcp>>

\* getProjects() and, for a project that is not local, getCodebaseMap(): 400 when the
\* project is in neither, else the "Cloning repository..." status and
\* cloneRepository(cloneUrl)
SearchStart(r) ==
  /\ r \in DOMAIN srv.reqs
  /\ srv.reqs[r].pc = "start"
  /\ srv' = [srv EXCEPT !.reqs[r] =
               IF ~srv.cloned
                 THEN LET q == [ReqStep(ReqStep(@, "getProjects"), "getCodebaseMap")
                                  EXCEPT !.needClone = TRUE]
                      IN IF ~srv.listed
                           THEN [q EXCEPT !.pc = "done", !.ended = TRUE, !.outcome = "json400"]
                         ELSE [ReqStep(ReqWrite(q, Ev("status", <<"Cloning repository...">>)),
                                       "clone")
                                 EXCEPT !.children = @ + 1, !.pc = "clone"]
                 ELSE [ReqStep(@, "getProjects") EXCEPT !.pc = "needsPull"]]
  /\ UNCHANGED <<agentType, consumer, child, gem, sdk, out, api, mcp>>

\* cloneRepository returns, having created the folder named by the URL's last segment,
\* or throws; after it the handler lists the local projects again
SearchCloned(r, ok) ==
  /\ r \in DOMAIN srv.reqs
  /\ srv.reqs[r].pc = "clone"
  /\ srv' = IF ok
              THEN LET found == srv.cloned \/ srv.folderIsProject
                   IN [srv EXCEPT
                         !.cloned = found,
                         !.reqs[r] =
                           IF found THEN [ReqStep(@, "afterClone") EXCEPT !.pc = "needsPull"]
                           ELSE ReqFail(ReqStep(@, "afterClone"),
                                        <<"Clone completed but project folder not found.">>)]
            ELSE [srv EXCEPT !.reqs[r] = ReqFail(@, <<"git clone failed">>)]
  /\ UNCHANGED <<agentType, consumer, child, gem, sdk, out, api, mcp>>

\* needsPull(project), then the "Updating repository..." status and pullRepository(project)
SearchNeedsPull(r) ==
  /\ r \in DOMAIN srv.reqs
  /\ srv.reqs[r].pc = "needsPull"
  /\ srv' = [srv EXCEPT !.reqs[r] =
               IF needsPull(MetaOfDay(srv.lastPull), srv.today * TicksPerDay, 0)
                 THEN [ReqStep(ReqStep(ReqWrite(@, Ev("status", <<"Updating repository...">>)),
                                       "needsPull"), "pull")
                         EXCEPT !.children = @ + 1, !.pc = "pull"]
                 ELSE [ReqStep(@, "needsPull") EXCEPT !.pc = "run"]]
  /\ UNCHANGED <<agentType, consumer, child, gem, sdk, out, api, mcp>>

\* a variant of SearchPulled that records the pull whether it succeeded or not
SearchPulled_RecordsFailedPull(r, ok) ==
  /\ r \in DOMAIN srv.reqs
  /\ srv.reqs[r].pc = "pull"
  /\ srv' = [srv EXCEPT !.pullDays = IF ok THEN Append(@, srv.today) ELSE @,
                        !.lastPull = srv.today,
                        !.reqs[r] = IF ok THEN [@ EXCEPT !.pc = "update"]
                                    ELSE ReqFail(@, <<"git pull failed">>)]
  /\ UNCHANGED <<agentType, consumer, child, gem, sdk, out, api, mcp>>

\* pullRepository returns, `git pull` done on this day, or throws
SearchPulled(r, ok) ==
  /\ r \in DOMAIN srv.reqs
  /\ srv.reqs[r].pc = "pull"
  /\ srv' = [srv EXCEPT !.pullDays = IF ok THEN Append(@, srv.today) ELSE @,
                        !.reqs[r] = IF ok THEN [@ EXCEPT !.pc = "update"]
                                    ELSE ReqFail(@, <<"git pull failed">>)]
  /\ UNCHANGED <<agentType, consumer, child, gem, sdk, out, api, mcp>>

\* updateLastPullDate(project)
SearchUpdated(r) ==
  /\ r \in DOMAIN srv.reqs
  /\ srv.reqs[r].pc = "update"
  /\ srv' = [srv EXCEPT !.lastPull = srv.today,
                        !.reqs[r] = [ReqStep(@, "updateLastPullDate") EXCEPT !.pc = "run"]]
  /\ UNCHANGED <<agentType, consumer, child, gem, sdk, out, api, mcp>>

\* runAgentStream(projectPath, prompt): the agent is spawned, or getAgentType throws
\* and the catch block answers res.status(500).json(...), which needs the headers unsent
SearchRun(r) ==
  /\ r \in DOMAIN srv.reqs
  /\ srv.reqs[r].pc = "run"
  /\ srv' = [srv EXCEPT !.reqs[r] =
               IF getAgentType(srv.env).ok
                 THEN [ReqStep(@, "agent")
                         EXCEPT !.children = @ + 1, !.pc = "done", !.outcome = "stream",
                                !.agent = getAgentType(srv.env).type]
               ELSE IF @.events = <<>>
                 THEN [@ EXCEPT !.pc = "done", !.ended = TRUE, !.outcome = "json500"]
               ELSE [@ EXCEPT !.pc = "done", !.outcome = "headersSent"]]
  /\ UNCHANGED <<agentType, consumer, child, gem, sdk, out, api, mcp>>

\* the calendar day changes
Midnight ==
  /\ srv.reqs # <<>>
  /\ srv.today < MaxDay
  /\ srv' = [srv EXCEPT !.today = @ + 1]
  /\ UNCHANGED <<agentType, consumer, child, gem, sdk, out, api, mcp>>

\* MaxRuns requests for one library, which is on disk or not, pulled today or not
InitSearch ==
  /\ agentType = "cursor"
  /\ consumer = "http"
  /\ child = ChildInit("cursor", 0)
  /\ gem = GemInit
  /\ sdk = SdkInit(0)
  /\ out = OutInit("cursor")
  /\ api = ApiInit
  /\ mcp = McpInit
  /\ \E env \in EnvValues, cloned \in BOOLEAN, lastPull \in 0..1 :
       /\ ~cloned => lastPull = 0
       /\ srv = [SrvNone EXCEPT !.env = env, !.cloned = cloned, !.lastPull = lastPull,
                                !.reqs = [r \in 1..MaxRuns |-> ReqInit]]

NextSearch ==
  \/ \E r \in 1..MaxRuns : SearchStart(r)
  \/ \E r \in 1..MaxRuns, ok \in BOOLEAN : SearchCloned(r, ok)
  \/ \E r \in 1..MaxRuns : SearchNeedsPull(r)
  \/ \E r \in 1..MaxRuns, ok \in BOOLEAN : SearchPulled(r, ok)
  \/ \E r \in 1..MaxRuns : SearchUpdated(r)
  \/ \E r \in 1..MaxRuns : SearchRun(r)
  \/ Midnight

SpecSearch == InitSearch /\ [][NextSearch]_vars

\* C17: a request that failed on an unsupported agent kind had started no child
\* process and had written no event to its response when it failed.
C17_FailsBeforeAnyEvent ==
  \A r \in DOMAIN srv.reqs :
    srv.reqs[r].outcome \in {"json500", "headersSent"} =>
      srv.reqs[r].events = <<>> /\ srv.reqs[r].children = 0

\* C18: no two executions of git pull for the library fall on the same calendar day.
C18_OnePullPerDay ==
  \A i, j \in DOMAIN srv.pullDays : i < j => srv.pullDays[i] # srv.pullDays[j]

\* ------------------------------------------ reference-format lines, parsed
MaxParseLines == 1

\* tool_call payloads: no payload, the known tools with and without arguments,
\* unknown tool kinds, an empty key
ToolPayloads ==
  { <<>>, <<"">>,
    <<"readToolCall">>, <<"readToolCall", "/", "a", "/", "b", "\\", "c.ts">>,
    <<"grepToolCall">>, <<"grepToolCall", "foo">>, <<"grepToolCall", "foo", "*.ts">>,
    <<"listDirToolCall">>, <<"listDirToolCall", "src", "/", "utils", "/">>,
    <<"codebaseSearchToolCall">>, <<"webSearchToolCall">>,
    <<"mcpTool">>, <<"Shell">>, <<"x">> }

ReferenceTypes == {"system", "thinking", "assistant", "result", "status", "error", "other"}
ReferenceSubtypes == {"", "init", "delta", "started", "completed", "success", "error"}

\* the objects a reference-format line can hold
ReferenceObjs ==
  { Obj(t, sub, str, <<"x">>) : t \in ReferenceTypes, sub \in ReferenceSubtypes, str \in BOOLEAN }
  \cup { Obj("tool_call", sub, FALSE, tc) : sub \in ReferenceSubtypes, tc \in ToolPayloads }

\* the lines of the stream: objects, padded objects, text that is not JSON
ReferenceLines ==
  { Render(o) : o \in ReferenceObjs }
  \cup { <<" ">> \o Render(Obj("error", "", TRUE, <<"x">>)) \o <<" ">>,
         Render(Obj("error", "", TRUE, <<>>)),
         <<"plain text">>, <<"{", "system", "init">>, <<" ">> }

\* a chunk of the child's stdout holding one reference-format line
ParseStep == \E l \in ReferenceLines, term \in BOOLEAN : StdoutData(<<l>>, term)

\* a Run of the strict adapter behind the MCP question tool, one line per chunk
InitParse == InitRun("cursor", "mcp", MaxParseLines)
NextParse == ParseStep \/ StdoutEnd \/ McpEndResume
SpecParse == InitParse /\ [][NextParse]_vars

\* the lines the child has written, the unterminated one included
StreamLines == SelectSeq(SplitNL(out.pushed), LAMBDA l : l # <<>>)

\* the mapping table of the reference format, row by row
TableEvent(o) ==
  CASE o.type = "system" /\ o.sub = "init" -> Ev("status", <<"Starting...">>)
    [] o.type = "thinking" /\ o.sub = "delta" -> Ev("status", <<"Thinking...">>)
    [] o.type = "thinking" /\ o.sub = "completed" -> Ev("status", <<"Thinking completed.">>)
    [] o.type = "tool_call" /\ o.sub = "started" /\ getToolCallInfo(o.text) # <<>> ->
         Ev("status", getToolCallInfo(o.text))
    [] o.type = "tool_call" /\ o.sub = "completed" /\ getToolCallInfo(o.text) # <<>> ->
         Ev("status", getToolCallInfo(o.text) \o <<" - done.">>)
    [] o.type = "assistant" -> Ev("status", <<"Preparing answer...">>)
    [] o.type = "result" /\ o.sub = "success" /\ o.str -> Ev("result", o.text)
    [] o.type = "result" /\ o.sub = "error" /\ o.str -> Ev("status", <<"Error: ">> \o o.text)
    [] o.type = "result" /\ o.sub = "error" /\ ~o.str -> Ev("status", <<"Error: ", "Unknown error">>)
    [] o.type = "status" /\ o.str -> Ev("status", o.text)
    [] o.type = "error" /\ o.str -> Ev("error", o.text)
    [] OTHER -> NoEvent

TableEventOfLine(line) ==
  IF IsJSON(Trim(line)) THEN TableEvent(ParseJSON(Trim(line))) ELSE NoEvent

RECURSIVE TableEvents(_)
TableEvents(ls) ==
  IF ls = <<>> THEN <<>>
  ELSE (IF TableEventOfLine(Head(ls)).kind = "none" THEN <<>> ELSE <<TableEventOfLine(Head(ls))>>)
       \o TableEvents(Tail(ls))

\* C19: parseStreamEvent returns for every line of the stream the event of the
\* mapping table (its kind and its text), and no event for JSON without a
\* recognized discriminator and for text that is not JSON; an event is exactly one
\* of status, result, error; the consumer holds the statuses and the result of the table.
C19_MappingTable ==
  consumer = "mcp" =>
    /\ \A i \in 1..Len(StreamLines) :
         /\ parseStreamEvent(StreamLines[i]) = TableEventOfLine(StreamLines[i])
         /\ parseStreamEvent(StreamLines[i]).kind \in {"none", "status", "result", "error"}
    /\ out.endDelivered =>
         /\ mcp.statusMessages = TextsOf(TableEvents(StreamLines), "status")
         /\ TextsOf(TableEvents(StreamLines), "result") # <<>> =>
              mcp.resultMarkdown \in {TextsOf(TableEvents(StreamLines), "result")[i] :
                                        i \in 1..Len(TextsOf(TableEvents(StreamLines), "result"))}

C19_Witness ==
  /\ consumer = "mcp" /\ out.endDelivered
  /\ StreamLines = <<Render(Obj("result", "error", TRUE, <<"x">>))>>
  /\ mcp.statusMessages = <<<<"Error: ", "x">>>>
  /\ mcp.settled = "pending"

\* the tool_call line of subtype `sub` with payload `tc`
ToolCallLine(sub, tc) == Render(Obj("tool_call", sub, FALSE, tc))

\* C20: a started tool call is shown with the label of its payload, the completed
\* one with the same label followed by " - done."; a read of path P is labelled
\* "Reading file: " + basename(P), an unknown kind with its humanized key + "...".
C20_ToolCallLabels ==
  \A i \in 1..Len(StreamLines) :
    LET line == StreamLines[i]
        o == ParseJSON(Trim(line))
    IN (IsJSON(Trim(line)) /\ o.type = "tool_call" /\ o.sub \in {"started", "completed"}) =>
         LET started == parseStreamEvent(ToolCallLine("started", o.text))
             completed == parseStreamEvent(ToolCallLine("completed", o.text))
         IN /\ parseStreamEvent(line) = IF o.sub = "started" THEN started ELSE completed
            /\ started.kind = "none" <=> completed.kind = "none"
            /\ started.kind # "none" =>
                 /\ started.kind = "status" /\ completed.kind = "status"
                 /\ completed.text = started.text \o <<" - done.">>
            /\ (Len(o.text) > 1 /\ o.text[1] = "readToolCall") =>
                 started.text = <<"Reading file: ">> \o Basename(Tail(o.text))
            /\ o.text = <<"mcpTool">> =>
                 started.text = <<"M", "c", "p", " ", "T", "o", "o", "l", "...">>
            /\ o.text = <<"Shell">> => started.text = <<"S", "h", "e", "l", "l", "...">>

C20_Witness ==
  /\ consumer = "mcp" /\ out.endDelivered
  /\ StreamLines = <<ToolCallLine("completed", <<"readToolCall", "/", "a", "/", "b", "\\", "c.ts">>)>>
  /\ mcp.statusMessages = <<<<"Reading file: ", "c.ts", " - done.">>>>

\* -------------------------------------------------- paths of read tool calls
MaxPathLen == 3

PathTokens == {"a", "b.ts", "/", "\\"}
Paths == UNION { [1..k -> PathTokens] : k \in 1..MaxPathLen }

\* the line with which each backend announces the read of a file
ReadLine(agent, path) ==
  IF agent = "gemini" THEN Render(Obj("tool_use", "file", FALSE, path))
  ELSE Render(Obj("tool_call", "started", FALSE, <<"readToolCall">> \o path))

\* a chunk of the child's stdout: the read of one file
ReadStep == \E path \in Paths : StdoutData(<<ReadLine(agentType, path)>>, TRUE)

\* a Run of either process-based adapter behind POST /search that reads one file
InitPaths == InitRun("cursor", "http", 1) \/ InitRun("gemini", "http", 1)
NextPaths == AdapterResume \/ ReadStep \/ StdoutEnd \/ (\E code \in ExitCodes : ChildClose(code)) \/ AdapterEnd
SpecPaths == InitPaths /\ [][NextPaths]_vars

\* the path whose read the child has announced (<<>> before it)
ReadPath ==
  LET ls == SelectSeq(SplitNL(IF agentType = "gemini" THEN gem.stdoutBuffer ELSE out.pushed),
                      LAMBDA l : l # <<>>)
  IN IF ls = <<>> THEN <<>>
     ELSE IF agentType = "gemini" THEN ParseJSON(ls[1]).text
     ELSE Tail(ParseJSON(ls[1]).text)

\* s is the last non-empty segment of path: a run of non-separators that starts
\* the path or follows a separator, and that only separators follow
IsLastSegment(path, s) ==
  \E i, j \in 1..Len(path) :
    /\ i <= j /\ s = SubSeq(path, i, j)
    /\ \A k \in i..j : ~IsSep(path[k])
    /\ \A k \in (j + 1)..Len(path) : IsSep(path[k])
    /\ i = 1 \/ IsSep(path[i - 1])

\* the status texts the consumer of the Run has been handed
RelayedStatuses == TextsOf(EventsOf(api.body), "status")

\* C21: the label of a read carries basename(path): the last non-empty segment,
\* "/" and "\" both separating, the path itself when it holds no separator; the
\* parser's basename and the adapter's basename give the same for the path.
C21_BasenameLastSegment ==
  ReadPath # <<>> =>
    /\ Basename(ReadPath) = GemBasename(ReadPath)
    /\ (\E k \in 1..Len(ReadPath) : ~IsSep(ReadPath[k])) => IsLastSegment(ReadPath, Basename(ReadPath))
    /\ (\A k \in 1..Len(ReadPath) : ~IsSep(ReadPath[k])) => Basename(ReadPath) = ReadPath
    /\ \E i \in 1..Len(RelayedStatuses) :
         RelayedStatuses[i] = <<"Reading file: ">> \o Basename(ReadPath)

C21_Witness ==
  /\ agentType = "gemini"
  /\ ReadPath = <<"a", "\\", "b.ts">>
  /\ <<"Reading file: ", "b.ts">> = RelayedStatuses[Len(RelayedStatuses)]

\* ---------------------------------- the SDK adapter with nothing attached
\* runClaudeAgentStream has returned and its caller has attached no listener to
\* the fake child nor to the stream (runWithClaudeAgent iterates the returned object)
InitSdkBare ==
  /\ agentType = "claude"
  /\ consumer = "none"
  /\ child = ChildInit("claude", MaxLines)
  /\ gem = GemInit
  /\ sdk = [SdkInit(MaxLines) EXCEPT !.listening = FALSE]
  /\ out = OutInit("claude")
  /\ api = ApiInit
  /\ mcp = McpInit
  /\ srv = SrvNone
NextSdkBare ==
  \/ \E ok \in BOOLEAN : SdkStart(ok)
  \/ \E m \in SdkMessages : SdkMessage(m)
  \/ SdkThrow
  \/ SdkReturn
SpecSdkBare == InitSdkBare /\ [][NextSdkBare]_vars

\* C22: no exception leaves the SDK adapter, with or without an 'error' listener
\* on the fake child, and a failed import ends the stream with an Error line.
C22_NoExceptionEscapes ==
  agentType = "claude" =>
    /\ ~sdk.escaped
    /\ sdk.failed => Terminals(out.pushed) = <<Ev("error", <<"import failed">>)>>

\* ------------------------------------------------- lines that do not parse
\* a Run of the lenient adapter behind POST /search or of the strict one behind
\* the question tool
InitUnparsed == InitRun("gemini", "http", MaxFairLines) \/ InitRun("cursor", "mcp", MaxFairLines)
NextUnparsed ==
  \/ AdapterResume
  \/ ProcessStep
  \/ StdoutEnd
  \/ StdoutError
  \/ AdapterEnd
  \/ ResClose
  \/ McpResume
  \/ McpEndResume
SpecUnparsed == InitUnparsed /\ [][NextUnparsed]_vars

\* the line is not JSON.parse-able text
NotJSON(l) == Trim(l) # <<>> /\ ~IsJSON(Trim(l))

\* the line is nothing the lenient adapter converts: not JSON, or no handled shape
Unhandled(l, assistantContent) ==
  \/ NotJSON(l)
  \/ IsJSON(Trim(l)) /\ geminiEventToCursorLine(ParseJSON(Trim(l)), assistantContent).isNull

RECURSIVE RawStatusLines(_)
RawStatusLines(ls) ==
  IF ls = <<>> THEN <<>> ELSE StatusLine(Trim(Head(ls))) \o RawStatusLines(Tail(ls))

\* the strict stream was read to its end or is still being read
StdoutReadFailed == agentType = "cursor" /\ ~child.stdoutOpen /\ ~out.endDelivered

\* the strict parser gives no event for a line that is not JSON, and a call is
\* rejected only for an Error line, a failed launch or a failed read
UnparsedNotFatalStrict ==
  consumer = "mcp" =>
    /\ \A i \in 1..Len(SplitNL(out.pushed)) :
         NotJSON(SplitNL(out.pushed)[i]) => parseStreamEvent(SplitNL(out.pushed)[i]) = NoEvent
    /\ mcp.settled = "rejected" =>
         TextsOf(OutEvents, "error") # <<>> \/ child.failed \/ StdoutReadFailed

\* a chunk of complete lines, none of which the lenient adapter converts, is pushed
\* line by line as Status events with the trimmed line for text, and leaves the
\* adapter as it was but for the raw stdout it keeps
UnparsedNotFatalLenient ==
  (/\ agentType = "gemini"
   /\ gem'.stdoutBuffer # gem.stdoutBuffer
   /\ Rest(NewStdout) = <<>>
   /\ \A i \in 1..Len(SplitNL(NewStdout)) - 1 :
        Unhandled(SplitNL(NewStdout)[i], gem.assistantContent)) =>
    /\ gem' = [gem EXCEPT !.stdoutBuffer = @ \o NewStdout]
    /\ out' = [out EXCEPT !.pushed =
                 @ \o RawStatusLines(SubSeq(SplitNL(NewStdout), 1, Len(SplitNL(NewStdout)) - 1))]

\* C23: a stdout line that does not parse never ends or fails the Run: the strict
\* parser gives no event for it, the lenient adapter pushes it trimmed as a Status,
\* and the lines after it are processed from an unchanged state.
C23_ParseFailureNotFatal == []UnparsedNotFatalStrict /\ [][UnparsedNotFatalLenient]_vars

C23_Witness ==
  /\ agentType = "gemini"
  /\ gem.stdoutBuffer = <<"plain text", NL>> \o Render(Obj("message", "assistant", TRUE, <<"A">>)) \o <<NL>>
  /\ gem.assistantContent = <<"A">>
  /\ TextsOf(OutEvents, "status") = <<<<"Running Gemini...">>, <<"plain text">>>>
  /\ ~out.ended

\* the tokens the child wrote to its stderr and to no other place
StderrOnlyTokens == {"boom"}

CarriesStderr(text) == \E i \in 1..Len(text) : text[i] \in StderrOnlyTokens

\* C24: no Status and no Result event on the output of a process-based adapter
\* carries text the child wrote to stderr.
C24_StderrNotRelayed ==
  \A i \in 1..Len(OutEvents) :
    OutEvents[i].kind \in {"status", "result"} => ~CarriesStderr(OutEvents[i].text)

\* C25: a stream with a line that parseStreamEvent maps to an Error, whatever its
\* text, fails the request: the MCP call is rejected and runSearch throws.
C25_EveryErrorFails ==
  (/\ consumer = "mcp" /\ out.endDelivered /\ mcp.endDone
   /\ \E i \in 1..Len(StreamLines) : parseStreamEvent(StreamLines[i]).kind = "error") =>
    /\ mcp.settled = "rejected"
    /\ runSearch(<<out.pushed>>).thrown # <<>>

\* the call was rejected with the text of an Error line of the stream
RejectedByErrorLine ==
  /\ consumer = "mcp" /\ mcp.settled = "rejected"
  /\ \E i \in 1..Len(TextsOf(OutEvents, "error")) : TextsOf(OutEvents, "error")[i] = mcp.value

\* C26: once the MCP call was rejected for an Error line, no progress notification
\* is sent any more: none for a later status, none at the end of the stream.
C26_NoProgressAfterError ==
  [][RejectedByErrorLine => mcp'.progress = mcp.progress]_vars

\* ------------------------------------- the environment changes in the process
\* process.env.AGENT_TYPE is assigned while the server runs
SetEnv(value) ==
  /\ srv.reqs # <<>>
  /\ value # srv.env
  /\ srv' = [srv EXCEPT !.env = value]
  /\ UNCHANGED <<agentType, consumer, child, gem, sdk, out, api, mcp>>

NextReconfig == NextSearch \/ \E value \in EnvValues : SetEnv(value)
SpecReconfig == InitSearch /\ [][NextReconfig]_vars

\* C27: all the Runs started in one process are dispatched to the same adapter.
C27_OneAgentKindPerProcess ==
  \A r1, r2 \in DOMAIN srv.reqs :
    (srv.reqs[r1].outcome = "stream" /\ srv.reqs[r2].outcome = "stream") =>
      srv.reqs[r1].agent = srv.reqs[r2].agent

\* the line the stdout handler would push for the unterminated rest of the child's
\* stdout, had a newline followed it
TailConverted ==
  LET raw == Trim(gem.lineBuffer)
  IN IF raw # <<>> /\ IsJSON(raw)
       THEN geminiEventToCursorLine(ParseJSON(raw), gem.assistantContent)
       ELSE NoConv

\* the process closed after a last stdout line that is terminal and has no newline
ClosedOnUnterminatedTerminal ==
  /\ agentType = "gemini"
  /\ gem.closed /\ ~gem.resultEmitted
  /\ ~TailConverted.isNull /\ TailConverted.hasLine
  /\ IncludesTerminalType(TailConverted.line)

\* C28: lenient adapter: when the process closes after a last terminal native line
\* with no trailing newline, the terminal Event of the stream is the one that line
\* yields when it is newline-terminated (an unterminated result line with a
\* non-success status yields a terminal Error, not a synthesized Result).
C28_UnterminatedTerminalLine ==
  ClosedOnUnterminatedTerminal =>
    Terminals(out.pushed) = EventsOf(TailConverted.line)

\* ------------------------------------------- the pull record and the clock
\* srv here: the clock, the time zone, metadata.libraries[L] and the last answer of
\* needsPull(L) with the instant it was asked at
LastPullRecords ==
  {NoLibraryMeta, EmptyLastPull, GarbageLastPull} \cup { toISOString(t) : t \in 0..MaxInstant }
NoAnswer == [asked |-> FALSE, at |-> 0, meta |-> NoLibraryMeta, value |-> FALSE]

InitPull ==
  /\ agentType = "cursor"
  /\ consumer = "none"
  /\ child = ChildInit("cursor", 0)
  /\ gem = GemInit
  /\ sdk = SdkInit(0)
  /\ out = OutInit("cursor")
  /\ api = ApiInit
  /\ mcp = McpInit
  /\ \E tz \in (-MaxOffset)..MaxOffset, meta \in LastPullRecords :
       srv = [clock |-> 0, tz |-> tz, meta |-> meta, answer |-> NoAnswer]

\* time passes
Tick ==
  /\ srv.clock < MaxInstant
  /\ srv' = [srv EXCEPT !.clock = @ + 1]
  /\ UNCHANGED <<agentType, consumer, child, gem, sdk, out, api, mcp>>

\* updateLastPullDate(L): lastPull becomes new Date().toISOString()
UpdateLastPullDate ==
  /\ srv' = [srv EXCEPT !.meta = toISOString(srv.clock)]
  /\ UNCHANGED <<agentType, consumer, child, gem, sdk, out, api, mcp>>

\* needsPull(L) is called
NeedsPullCall ==
  /\ srv' = [srv EXCEPT !.answer = [asked |-> TRUE, at |-> srv.clock, meta |-> srv.meta,
                                    value |-> needsPull(srv.meta, srv.clock, srv.tz)]]
  /\ UNCHANGED <<agentType, consumer, child, gem, sdk, out, api, mcp>>

NextPull == Tick \/ UpdateLastPullDate \/ NeedsPullCall
SpecPull == InitPull /\ [][NextPull]_vars

\* the local calendar day of an instant
LocalDay(t, tz) == (t + tz) \div TicksPerDay
\* the instant an ISO string names
InstantOf(meta) == meta.day * TicksPerDay + meta.tick

\* C29: needsPull(L) is true exactly when there is no lastPull record for L or the
\* recorded lastPull falls on a local calendar day strictly before today; a pull
\* recorded earlier today gives false.
C29_NeedsPullByLocalDay ==
  srv.answer.asked =>
    LET a == srv.answer
    IN a.value <=>
         \/ a.meta.kind \in {"none", "empty"}
         \/ /\ a.meta.kind = "iso"
            /\ LocalDay(InstantOf(a.meta), srv.tz) < LocalDay(a.at, srv.tz)

\* C29, its cases: a pull recorded earlier on the same local day that is another UTC
\* day gives false
C29_Witness ==
  /\ srv.answer.asked /\ srv.answer.meta.kind = "iso"
  /\ InstantOf(srv.answer.meta) < srv.answer.at
  /\ srv.answer.meta.day < srv.answer.at \div TicksPerDay
  /\ LocalDay(InstantOf(srv.answer.meta), srv.tz) = LocalDay(srv.answer.at, srv.tz)
  /\ ~srv.answer.value

\* ------------------------------------------------ projects that are not local
\* MaxRuns requests for one project: on disk or not, in the codebase list or not, its
\* URL's last segment the project's name or not
InitClone ==
  /\ agentType = "cursor"
  /\ consumer = "http"
  /\ child = ChildInit("cursor", 0)
  /\ gem = GemInit
  /\ sdk = SdkInit(0)
  /\ out = OutInit("cursor")
  /\ api = ApiInit
  /\ mcp = McpInit
  /\ \E cloned, listed, folderIsProject \in BOOLEAN, lastPull \in 0..1 :
       /\ ~cloned => lastPull = 0
       /\ srv = [SrvNone EXCEPT !.cloned = cloned, !.listed = listed,
                                !.folderIsProject = folderIsProject, !.lastPull = lastPull,
                                !.reqs = [r \in 1..MaxRuns |-> ReqInit]]

SpecClone == InitClone /\ [][NextSearch]_vars

\* the position of the first `step` among the calls of a request (0: not called)
StepAt(q, step) ==
  IF \E i \in DOMAIN q.steps : q.steps[i] = step
    THEN CHOOSE i \in DOMAIN q.steps :
           q.steps[i] = step /\ \A j \in 1..(i - 1) : q.steps[j] # step
    ELSE 0

C30_RejectedCase ==
  \E r \in DOMAIN srv.reqs : srv.reqs[r].outcome = "json400"

\* ------------------------------------------------------------ cloneRepository
BRANCH_ORDER == <<"sprint", "master", "main">>

\* how one `git clone -b <branch>` ends: success, exit code 128, another exit code
\* with or without stderr text, or an error that is no execa error
GitOutcomes == {"ok", "exit128", "exit1-stderr", "exit1-silent", "otherError"}

\* the call before its first attempt; result: "running", "returned", or what it threw
CloneInit == [tried |-> <<>>, result |-> "running", message |-> <<>>]

\* the message of the error an attempt rejects with
GitErrorMessage(outcome) ==
  IF outcome = "otherError" THEN <<"spawn git ENOENT">>
  ELSE <<"Command failed: git clone">>

\* a variant of CloneAttempt that goes on to the next branch after every failure
CloneAttempt_NextOnAnyFailure(c, outcome) ==
  LET branch == BRANCH_ORDER[Len(c.tried) + 1]
      c1 == [c EXCEPT !.tried = Append(@, branch)]
  IN IF outcome = "ok" THEN [c1 EXCEPT !.result = "returned"]
     ELSE IF Len(c1.tried) < Len(BRANCH_ORDER)
       THEN [c1 EXCEPT !.message = GitErrorMessage(outcome)]
     ELSE [c1 EXCEPT !.result = "thrown",
                     !.message = <<"git clone failed (no branch found): ">>
                                   \o GitErrorMessage(outcome)]

\* one pass of the for loop: the clone of the next branch ends with `outcome`; after
\* the last branch the statements behind the loop run
CloneAttempt(c, outcome) ==
  LET branch == BRANCH_ORDER[Len(c.tried) + 1]
      c1 == [c EXCEPT !.tried = Append(@, branch)]
  IN IF outcome = "ok" THEN [c1 EXCEPT !.result = "returned"]
     ELSE IF outcome = "exit128"
       THEN IF Len(c1.tried) < Len(BRANCH_ORDER)
              THEN [c1 EXCEPT !.message = GitErrorMessage(outcome)]
            ELSE [c1 EXCEPT !.result = "thrown",
                            !.message = <<"git clone failed (no branch found): ">>
                                          \o GitErrorMessage(outcome)]
     ELSE IF outcome = "exit1-stderr"
       THEN [c1 EXCEPT !.result = "thrown", !.message = <<"git clone failed: ", "stderr">>]
     ELSE IF outcome = "exit1-silent"
       THEN [c1 EXCEPT !.result = "thrown", !.message = <<"git clone failed: ", "exit code 1">>]
     ELSE [c1 EXCEPT !.result = "thrown", !.message = GitErrorMessage(outcome)]

\* srv here: how the clone of each branch would end, and the call in progress
InitBranches ==
  /\ agentType = "cursor"
  /\ consumer = "none"
  /\ child = ChildInit("cursor", 0)
  /\ gem = GemInit
  /\ sdk = SdkInit(0)
  /\ out = OutInit("cursor")
  /\ api = ApiInit
  /\ mcp = McpInit
  /\ \E remote \in [DOMAIN BRANCH_ORDER -> GitOutcomes] :
       srv = [remote |-> remote, clone |-> CloneInit]

\* git clone of the next branch ends
CloneStep ==
  /\ srv.clone.result = "running"
  /\ srv' = [srv EXCEPT !.clone = CloneAttempt(@, srv.remote[Len(@.tried) + 1])]
  /\ UNCHANGED <<agentType, consumer, child, gem, sdk, out, api, mcp>>

NextBranches == CloneStep
SpecBranches == InitBranches /\ [][NextBranches]_vars

\* C31: cloneRepository tries sprint, master, main in that order; it stops at the first
\* successful clone, goes on to the next branch only after exit code 128, throws at
\* once on any other failure, and throws "no branch found" when all three end with 128.
C31_BranchOrder ==
  LET c == srv.clone
      n == Len(c.tried)
  IN /\ c.tried = SubSeq(BRANCH_ORDER, 1, n)
     /\ \A i \in 1..(n - 1) : srv.remote[i] = "exit128"
     /\ c.result = "running" => n < Len(BRANCH_ORDER) /\ (n > 0 => srv.remote[n] = "exit128")
     /\ c.result = "returned" => srv.remote[n] = "ok"
     /\ c.result = "thrown" =>
          /\ srv.remote[n] # "ok"
          /\ srv.remote[n] = "exit128" =>
               /\ n = Len(BRANCH_ORDER)
               /\ Head(c.message) = "git clone failed (no branch found): "
          /\ srv.remote[n] # "exit128" =>
               Head(c.message) # "git clone failed (no branch found): "

\* C31, its case: the first branch ended with 128, the second with another failure,
\* and the call threw without trying the third
C31_Witness ==
  /\ srv.clone.result = "thrown"
  /\ srv.clone.tried = <<"sprint", "master">>
  /\ srv.remote[2] = "exit1-stderr" /\ srv.remote[3] = "ok"

\* ------------------------------------------------------------- getProjectPath
\* project names, character by character
NameChars == {"a", ".", "/", "\\"}
ProjectNames == UNION { [1..k -> NameChars] : k \in 1..MaxPathLen }

\* the sources directory, segment by segment
SourcesDir == <<"srv", "sources">>

\* String.prototype.includes for the two-character string ".." and for one character
IncludesDotDot(name) == \E i \in 1..(Len(name) - 1) : name[i] = "." /\ name[i + 1] = "."
IncludesChar(name, c) == \E i \in 1..Len(name) : name[i] = c

\* path.normalize over segments: "" and "." are dropped, ".." removes the segment before
RECURSIVE NormalizeSegments(_, _)
NormalizeSegments(done, rest) ==
  IF rest = <<>> THEN done
  ELSE LET seg == Head(rest)
       IN IF seg = <<>> \/ seg = <<".">> THEN NormalizeSegments(done, Tail(rest))
          ELSE IF seg = <<".", ".">>
            THEN NormalizeSegments(IF done = <<>> THEN done ELSE SubSeq(done, 1, Len(done) - 1),
                                   Tail(rest))
          ELSE NormalizeSegments(Append(done, seg), Tail(rest))

\* path.join(dir, name) for an absolute dir
PathJoin(dir, name) == NormalizeSegments(dir, SplitSlash(name))

\* getProjectPath(projectName): [ok, path]; ok = FALSE when it throws
getProjectPath(projectName) ==
  IF \/ IncludesDotDot(projectName)
     \/ IncludesChar(projectName, "/")
     \/ IncludesChar(projectName, "\\")
    THEN [ok |-> FALSE, path |-> <<>>]
  ELSE [ok |-> TRUE, path |-> PathJoin([i \in DOMAIN SourcesDir |-> <<SourcesDir[i]>>], projectName)]

\* srv here: the project name and what getProjectPath did with it
InitProjectPath ==
  /\ agentType = "cursor"
  /\ consumer = "none"
  /\ child = ChildInit("cursor", 0)
  /\ gem = GemInit
  /\ sdk = SdkInit(0)
  /\ out = OutInit("cursor")
  /\ api = ApiInit
  /\ mcp = McpInit
  /\ \E name \in ProjectNames :
       srv = [projectName |-> name, called |-> FALSE, projectPath |-> [ok |-> FALSE, path |-> <<>>]]

\* getProjectPath(project) is called
GetProjectPathCall ==
  /\ ~srv.called
  /\ srv' = [srv EXCEPT !.called = TRUE, !.projectPath = getProjectPath(srv.projectName)]
  /\ UNCHANGED <<agentType, consumer, child, gem, sdk, out, api, mcp>>

NextProjectPath == GetProjectPathCall
SpecProjectPath == InitProjectPath /\ [][NextProjectPath]_vars

\* C32: getProjectPath rejects every name containing "..", "/" or "\", and every path
\* it returns is a direct child of the sources directory.
C32_DirectChildOfSources ==
  srv.called =>
    /\ (IncludesDotDot(srv.projectName) \/ IncludesChar(srv.projectName, "/")
          \/ IncludesChar(srv.projectName, "\\")) => ~srv.projectPath.ok
    /\ srv.projectPath.ok =>
         /\ Len(srv.projectPath.path) = Len(SourcesDir) + 1
         /\ \A i \in DOMAIN SourcesDir : srv.projectPath.path[i] = <<SourcesDir[i]>>

\* ------------------------------------------- metadata.json under concurrency
\* the libraries of the two Runs, character by character
MetaLibraries == {<<"a">>, <<"b", "b">>}
\* lastPull strings: one written before, and the one each update writes
OldStamp == "t0"
StampOf(library) == IF library = <<"a">> THEN "tA" ELSE "tB"
Stamps == {OldStamp} \cup { StampOf(l) : l \in MetaLibraries }

\* metadata.libraries, in the insertion order of the keys: a sequence of [name, lastPull]
MetaEntry(name, lastPull) == [name |-> name, lastPull |-> lastPull]
MetaValues ==
  { m \in UNION { [1..k -> { MetaEntry(l, t) : l \in MetaLibraries, t \in Stamps }]
                  : k \in 0..Cardinality(MetaLibraries) } :
      \A i, j \in DOMAIN m : i # j => m[i].name # m[j].name }

\* JSON.stringify(metadata, null, 2), character by character
RECURSIVE StringifyEntries(_)
StringifyEntries(m) ==
  IF m = <<>> THEN <<>>
  ELSE Head(m).name \o <<":", Head(m).lastPull>>
         \o (IF Len(m) > 1 THEN <<",">> ELSE <<>>) \o StringifyEntries(Tail(m))
StringifyMeta(m) == <<"{">> \o StringifyEntries(m) \o <<"}">>

\* metadata.libraries[libraryName] = { lastPull }: an existing key keeps its place
SetLastPull(m, library, stamp) ==
  IF \E i \in DOMAIN m : m[i].name = library
    THEN [i \in DOMAIN m |-> IF m[i].name = library THEN MetaEntry(library, stamp) ELSE m[i]]
  ELSE Append(m, MetaEntry(library, stamp))

\* loadMetadata: the parsed file, or empty metadata when the file is missing or not JSON
loadMetadata(fs) ==
  IF fs.meta = 0 THEN <<>>
  ELSE IF \E m \in MetaValues : StringifyMeta(m) = fs.inode[fs.meta]
    THEN CHOOSE m \in MetaValues : StringifyMeta(m) = fs.inode[fs.meta]
  ELSE <<>>

\* write(fd, content) at offset 0: the bytes behind the written ones stay
WriteAtStart(old, content) ==
  content \o (IF Len(old) > Len(content) THEN SubSeq(old, Len(content) + 1, Len(old)) ELSE <<>>)

\* fs.writeFile(tempPath), its open with flag "w": the one temp file is created, or the
\* existing one is truncated; inode w is the file writer w creates
OpenTemp(fs, w) ==
  IF fs.tmp = 0
    THEN [fs EXCEPT !.inode[w] = <<>>, !.tmp = w, !.fd[w] = w]
  ELSE [fs EXCEPT !.inode[fs.tmp] = <<>>, !.fd[w] = fs.tmp]

\* the two updateLastPullDate calls; pc: "load", "open", "write", "rename", "done"
MetaWriters == 1..Cardinality(MetaLibraries)
LibraryOf(w) == IF w = 1 THEN <<"a">> ELSE <<"b", "b">>
WriterInit == [pc |-> "load", metadata |-> <<>>, saved |-> FALSE]

\* srv here: fs = the files (inode 0: none; tmp, meta: the inode behind each path; fd:
\* the inode each writer has open), and the writers
InitMeta ==
  /\ agentType = "cursor"
  /\ consumer = "none"
  /\ child = ChildInit("cursor", 0)
  /\ gem = GemInit
  /\ sdk = SdkInit(0)
  /\ out = OutInit("cursor")
  /\ api = ApiInit
  /\ mcp = McpInit
  /\ \E m \in { v \in MetaValues : \A i \in DOMAIN v : v[i].lastPull = OldStamp } :
       srv = [fs |-> [inode |-> [i \in MetaWriters \cup {Cardinality(MetaLibraries) + 1}
                                   |-> IF i \in MetaWriters THEN <<>> ELSE StringifyMeta(m)],
                      tmp |-> 0, meta |-> Cardinality(MetaLibraries) + 1,
                      fd |-> [w \in MetaWriters |-> 0]],
              writers |-> [w \in MetaWriters |-> WriterInit]]

\* updateLastPullDate: loadMetadata and the assignment of the new lastPull
MetaLoad(w) ==
  /\ srv.writers[w].pc = "load"
  /\ srv' = [srv EXCEPT !.writers[w] =
               [@ EXCEPT !.pc = "open",
                         !.metadata = SetLastPull(loadMetadata(srv.fs), LibraryOf(w),
                                                  StampOf(LibraryOf(w)))]]
  /\ UNCHANGED <<agentType, consumer, child, gem, sdk, out, api, mcp>>

\* saveMetadata: fs.writeFile opens the temp file
MetaOpen(w) ==
  /\ srv.writers[w].pc = "open"
  /\ srv' = [srv EXCEPT !.fs = OpenTemp(@, w), !.writers[w].pc = "write"]
  /\ UNCHANGED <<agentType, consumer, child, gem, sdk, out, api, mcp>>

\* saveMetadata: fs.writeFile writes the content and closes the file
MetaWrite(w) ==
  /\ srv.writers[w].pc = "write"
  /\ srv' = [srv EXCEPT
               !.fs.inode[srv.fs.fd[w]] = WriteAtStart(@, StringifyMeta(srv.writers[w].metadata)),
               !.fs.fd[w] = 0,
               !.writers[w].pc = "rename"]
  /\ UNCHANGED <<agentType, consumer, child, gem, sdk, out, api, mcp>>

\* saveMetadata: fs.rename(tempPath, metadataPath); when the temp file is gone it
\* throws, and the catch block only warns
MetaRename(w) ==
  /\ srv.writers[w].pc = "rename"
  /\ srv' = IF srv.fs.tmp = 0
              THEN [srv EXCEPT !.writers[w].pc = "done"]
            ELSE [srv EXCEPT !.fs.meta = srv.fs.tmp,
                             !.fs.tmp = 0,
                             !.writers[w] = [@ EXCEPT !.pc = "done", !.saved = TRUE]]
  /\ UNCHANGED <<agentType, consumer, child, gem, sdk, out, api, mcp>>

NextMeta == \E w \in MetaWriters : MetaLoad(w) \/ MetaOpen(w) \/ MetaWrite(w) \/ MetaRename(w)
SpecMeta == InitMeta /\ [][NextMeta]_vars

\* the content of metadata.json
MetaFile == srv.fs.inode[srv.fs.meta]

\* C33: when the updates of two Runs for different libraries interleave, metadata.json
\* ends as one writer's complete content, never a mixture.
C33_OneWritersContent ==
  (\A w \in MetaWriters : srv.writers[w].pc = "done") =>
    \E w \in MetaWriters : MetaFile = StringifyMeta(srv.writers[w].metadata)

\* ------------------------------------------------------------ getAgentBackend
MaxCalls == 2

\* the values of AGENT_BACKEND, token by token (<<>>: not set)
BackendEnvValues ==
  { <<>>, <<" ">>, <<"auto">>, <<"cursor">>, <<"claude">>, <<" ", "claude">>, <<"Claude">> }

\* readEnv(name): the trimmed value, undefined (here <<>>) when unset or empty
readEnv(raw) == Trim(raw)

\* a variant of detectAgentBackend that does not keep what it detected
detectAgentBackend_NoMemo(detectedBackend, hasAnthropicKey, hasCursorAgent) ==
  IF detectedBackend # "" THEN [result |-> detectedBackend, detectedBackend |-> detectedBackend]
  ELSE IF hasAnthropicKey THEN [result |-> "claude", detectedBackend |-> ""]
  ELSE IF hasCursorAgent THEN [result |-> "cursor", detectedBackend |-> ""]
  ELSE [result |-> "throws", detectedBackend |-> ""]

\* detectAgentBackend: [result, detectedBackend]; "" = undefined, "throws" = it throws
detectAgentBackend(detectedBackend, hasAnthropicKey, hasCursorAgent) ==
  IF detectedBackend # "" THEN [result |-> detectedBackend, detectedBackend |-> detectedBackend]
  ELSE IF hasAnthropicKey /\ hasCursorAgent THEN [result |-> "claude", detectedBackend |-> "claude"]
  ELSE IF hasAnthropicKey THEN [result |-> "claude", detectedBackend |-> "claude"]
  ELSE IF hasCursorAgent THEN [result |-> "cursor", detectedBackend |-> "cursor"]
  ELSE [result |-> "throws", detectedBackend |-> ""]

\* getAgentBackend
getAgentBackend(raw, detectedBackend, hasAnthropicKey, hasCursorAgent) ==
  LET val == readEnv(raw)
  IN IF val = <<"claude">> THEN [result |-> "claude", detectedBackend |-> detectedBackend]
     ELSE IF val = <<"cursor">> THEN [result |-> "cursor", detectedBackend |-> detectedBackend]
     ELSE detectAgentBackend(detectedBackend, hasAnthropicKey, hasCursorAgent)

\* srv here: the environment (AGENT_BACKEND, ANTHROPIC_API_KEY set or not, cursor-agent
\* on the PATH or not), the module's detectedBackend, and the calls made: calls[i] =
\* the environment of the i-th call and its result
InitBackend ==
  /\ agentType = "cursor"
  /\ consumer = "mcp"
  /\ child = ChildInit("cursor", 0)
  /\ gem = GemInit
  /\ sdk = SdkInit(0)
  /\ out = OutInit("cursor")
  /\ api = ApiInit
  /\ mcp = McpInit
  /\ \E raw \in BackendEnvValues, key, cli \in BOOLEAN :
       srv = [backendEnv |-> raw, hasAnthropicKey |-> key, hasCursorAgent |-> cli,
              detectedBackend |-> "", calls |-> <<>>]

\* the environment changes between two calls
BackendEnvChange(raw, key, cli) ==
  /\ srv.calls # <<>> /\ Len(srv.calls) < MaxCalls
  /\ <<raw, key, cli>> # <<srv.backendEnv, srv.hasAnthropicKey, srv.hasCursorAgent>>
  /\ srv' = [srv EXCEPT !.backendEnv = raw, !.hasAnthropicKey = key, !.hasCursorAgent = cli]
  /\ UNCHANGED <<agentType, consumer, child, gem, sdk, out, api, mcp>>

\* getAgentBackend() is called
GetAgentBackendCall ==
  /\ Len(srv.calls) < MaxCalls
  /\ LET r == getAgentBackend(srv.backendEnv, srv.detectedBackend,
                              srv.hasAnthropicKey, srv.hasCursorAgent)
     IN srv' = [srv EXCEPT
                  !.detectedBackend = r.detectedBackend,
                  !.calls = Append(@, [val |-> srv.backendEnv, key |-> srv.hasAnthropicKey,
                                       cli |-> srv.hasCursorAgent, result |-> r.result])]
  /\ UNCHANGED <<agentType, consumer, child, gem, sdk, out, api, mcp>>

NextBackend ==
  \/ GetAgentBackendCall
  \/ \E raw \in BackendEnvValues, key, cli \in BOOLEAN : BackendEnvChange(raw, key, cli)
SpecBackend == InitBackend /\ [][NextBackend]_vars

\* the call was made with an explicit backend
IsExplicit(call) == Trim(call.val) \in {<<"cursor">>, <<"claude">>}
\* the call detected a backend
Detected(call) == ~IsExplicit(call) /\ call.result # "throws"

\* C34: an explicit AGENT_BACKEND of "cursor" or "claude" is returned as is; otherwise
\* the first successful detection gives "claude" when ANTHROPIC_API_KEY is set, "cursor"
\* when only cursor-agent is found, and a call throws when neither is available; every
\* later detection returns what the first successful one returned, and a detection
\* after failed ones is attempted anew.
C34_BackendDetection ==
  \A i \in DOMAIN srv.calls :
    LET call == srv.calls[i]
        earlier == { j \in 1..(i - 1) : Detected(srv.calls[j]) }
    IN IF IsExplicit(call) THEN <<call.result>> = Trim(call.val)
       ELSE IF earlier # {} THEN call.result = srv.calls[SeqMin(earlier)].result
       ELSE call.result = (IF call.key THEN "claude" ELSE IF call.cli THEN "cursor" ELSE "throws")

\* C34, its case: a detection found only cursor-agent, and a detection after the key
\* was set still returned "cursor"
C34_Witness ==
  /\ Len(srv.calls) = 2
  /\ \A i \in 1..2 : ~IsExplicit(srv.calls[i])
  /\ ~srv.calls[1].key /\ srv.calls[1].result = "cursor"
  /\ srv.calls[2].key /\ srv.calls[2].result = "cursor"

\* a detection that failed was followed by one that succeeded
C34_Reattempted ==
  /\ Len(srv.calls) = 2
  /\ \A i \in 1..2 : ~IsExplicit(srv.calls[i])
  /\ srv.calls[1].result = "throws" /\ srv.calls[2].result = "claude"

\* the request failed at its pull
PullFailed(q) ==
  /\ q.outcome = "error"
  /\ q.steps # <<>> /\ q.steps[Len(q.steps)] = "pull"
  /\ q.events[Len(q.events)] = Ev("error", <<"git pull failed">>)

\* a request whose pull failed reported exactly one Error, ended its response, and
\* neither wrote the pull record nor started the agent
PullFailureReported ==
  \A r \in DOMAIN srv.reqs :
    PullFailed(srv.reqs[r]) =>
      /\ Len(SelectSeq(srv.reqs[r].events, LAMBDA e : e.kind = "error")) = 1
      /\ srv.reqs[r].ended
      /\ StepAt(srv.reqs[r], "updateLastPullDate") = 0
      /\ StepAt(srv.reqs[r], "agent") = 0

\* the step in which a pull fails leaves the pull record as it was
PullFailureKeepsRecord ==
  \A r \in DOMAIN srv.reqs :
    (srv.reqs[r].pc = "pull" /\ PullFailed(srv'.reqs[r])) => srv'.lastPull = srv.lastPull

\* a request that has failed stays as it is
FailedRequestStays ==
  \A r \in DOMAIN srv.reqs : srv.reqs[r].outcome = "error" => srv'.reqs[r] = srv.reqs[r]

\* C35: when pullRepository fails for a request, the lastPull record is left unchanged,
\* exactly one Error is reported to the consumer, and the agent is never started for
\* that request.
C35_PullFailure ==
  /\ []PullFailureReported
  /\ [][PullFailureKeepsRecord /\ FailedRequestStays]_vars

\* C35, its case: a request's pull failed while no pull was recorded
C35_Witness ==
  \E r \in DOMAIN srv.reqs : PullFailed(srv.reqs[r]) /\ srv.lastPull = 0

\* C36: a stored lastPull that is not a valid date is treated like a missing record:
\* getLastPullDate yields no date and needsPull answers true.
C36_CorruptRecordNeedsPull ==
  (srv.answer.asked /\ srv.answer.meta.kind = "garbage") =>
    /\ getLastPullDate(srv.answer.meta) = "null"
    /\ srv.answer.value

\* after 'close' the stream is ended with a terminal Event before the end marker, and
\* another call of emitFinal pushes nothing and does not end the stream again
EndedOnceAtClose ==
  (agentType = "gemini" /\ child.closed) =>
    /\ gem.closed /\ out.ended
    /\ Terminals(out.pushed) # <<>>
    /\ \A code \in ExitCodes \cup {SpawnFailCode} :
         emitFinal(gem, code).pushed = <<>> /\ ~emitFinal(gem, code).end

\* nothing is pushed behind the end marker, and the marker stays
NothingAfterEndMarker ==
  (agentType = "gemini" /\ out.ended) => out'.ended /\ out'.pushed = out.pushed

C38_TerminalBeforeEnd ==
  (agentType = "claude" /\ sdk.returned /\ out.ended) => Terminals(out.pushed) # <<>>

\* C39: HTTP surface: in every interleaving of the child's 'error' and 'close' and the
\* stdout 'data', 'end' and 'error' callbacks, nothing is written to the response
\* after it was ended, and the response is ended at most once.
C39_ResponseEndedOnce ==
  consumer = "http" => ~api.writeAfterEnd /\ api.endCalls <= 1
====
